---- MODULE Spec2Model ----
(***************************************************************************)
(* atomc: the apply engine of crates/atomc-core/src/git.rs (apply_plan and  *)
(* its helpers), the diff engine (compute_diff) and the hash guard          *)
(* (diff_hash), over an abstract git repository: per path the content at    *)
(* HEAD, in the index and in the working tree (0 = the path is absent).     *)
(***************************************************************************)
EXTENDS Integers, Sequences, FiniteSets, TLC

\* ------------------------------------------------------------- bounds
MaxContent == 2     \* file contents are 1..MaxContent, 0 is "absent"
MaxUnits == 2       \* longest plan handed to apply_plan
MaxWrites == 1      \* writes by other processes after the snapshot

Files == {"a", "b"}
FileOrder == <<"a", "b">>           \* git lists paths in path order
Content == 0..MaxContent
Modes == {"Worktree", "Staged", "All"}
Sources == {"Repo", "Diff"}

\* The repository lives at /repo: repo.join(f) as git prints it after the
\* "a" or "b" prefix of a --no-index header ("a" ++ "/repo/f").
AbsPath(f) == IF f = "a" THEN "repo/a" ELSE "repo/b"

None == <<>>
Some(x) == <<x>>

VARIABLES
    head,       \* [Files -> Content]: the tree of the HEAD commit
    index,      \* [Files -> Content]: the index
    wt,         \* [Files -> Content]: the working tree
    commits,    \* the commits made on top of the initial one, oldest first
    snap,       \* the repository as it was when the diff snapshot was taken
    writes,     \* number of writes by other processes so far
    req,        \* the ApplyRequest of the call (EmptyRequest before it)
    atCall,     \* head, index and writes when apply_plan was called
    pc,         \* position of apply_plan
    i,          \* 1-based position of the loop in request.plan
    results,    \* the local `results` of apply_plan
    error,      \* the error of the failing step, kept while cleanup runs
    ret,        \* the value apply_plan returned
    log         \* mutating git commands issued by apply_plan, in order

vars == <<head, index, wt, commits, snap, writes, req, atCall, pc, i,
          results, error, ret, log>>

repoVars == <<head, index, wt, commits>>

\* ------------------------------------------------------- sequences
RECURSIVE Flatten(_)
Flatten(ss) == IF ss = <<>> THEN <<>> ELSE Head(ss) \o Flatten(Tail(ss))

Range(s) == {s[k] : k \in 1..Len(s)}

\* ----------------------------------------------------- diff text
\* A diff text is a sequence of lines. A "diff --git" line carries its
\* whitespace-separated tokens, each a prefix ("a/", "b/", another one such
\* as "w/", or "") and the rest.
Tok(pfx, path) == [pfx |-> pfx, path |-> path]
HeaderLine(toks) == [kind |-> "diff --git", toks |-> toks, old |-> 0, new |-> 0]
BodyLine(path, o, n) == [kind |-> "text", toks |-> <<Tok("", path)>>, old |-> o, new |-> n]
BlankLine == [kind |-> "blank", toks |-> <<>>, old |-> 0, new |-> 0]
\* A line of spaces or tabs only.
SpaceLine == [kind |-> "space", toks |-> <<>>, old |-> 0, new |-> 0]

\* What git prints for one path whose content goes from o to n.
FileDiff(path, o, n) ==
    << HeaderLine(<<Tok("a/", path), Tok("b/", path)>>), BodyLine(path, o, n) >>

\* Mutant: `git diff HEAD`, the working tree against HEAD.
WorktreeDiff_from_head(h, ix, w) ==
    Flatten([k \in 1..Len(FileOrder) |->
        LET f == FileOrder[k] IN
        IF (ix[f] # 0 \/ h[f] # 0) /\ w[f] # h[f] THEN FileDiff(f, h[f], w[f]) ELSE <<>>])

\* `git diff`: tracked paths whose working tree differs from the index.
WorktreeDiff(h, ix, w) ==
    Flatten([k \in 1..Len(FileOrder) |->
        LET f == FileOrder[k] IN
        IF ix[f] # 0 /\ w[f] # ix[f] THEN FileDiff(f, ix[f], w[f]) ELSE <<>>])

\* `git diff --staged`: paths whose index differs from HEAD.
StagedDiff(h, ix, w) ==
    Flatten([k \in 1..Len(FileOrder) |->
        LET f == FileOrder[k] IN
        IF ix[f] # h[f] THEN FileDiff(f, h[f], ix[f]) ELSE <<>>])

\* list_untracked_files: the "?? " entries of the status scan.
list_untracked_files(h, ix, w) ==
    SelectSeq(FileOrder, LAMBDA f : ix[f] = 0 /\ w[f] # 0)

\* `git diff --no-index -- /dev/null <repo.join(path)>`
UntrackedDiff(f, w) == FileDiff(AbsPath(f), 0, w[f])

\* diff.trim().is_empty(): the text has no line, or only lines of whitespace.
trim_is_empty(diff) == \A k \in 1..Len(diff) : diff[k].kind \in {"blank", "space"}

\* Mutant: only the empty text is left out.
push_if_non_empty_untrimmed(target, diff) ==
    IF diff = <<>> THEN target ELSE Append(target, diff)

push_if_non_empty(target, diff) ==
    IF trim_is_empty(diff) THEN target ELSE Append(target, diff)

\* parts.join("\n"): every part ends with a newline, so the separator shows
\* as an empty line between two parts.
RECURSIVE JoinParts(_)
JoinParts(parts) ==
    IF parts = <<>> THEN <<>>
    ELSE IF Len(parts) = 1 THEN parts[1]
    ELSE parts[1] \o <<BlankLine>> \o JoinParts(Tail(parts))

RECURSIVE PushAll(_, _)
PushAll(target, diffs) ==
    IF diffs = <<>> THEN target
    ELSE PushAll(push_if_non_empty(target, Head(diffs)), Tail(diffs))

\* What the git commands of compute_diff print for a repository: `git diff`,
\* `git diff --staged`, and the --no-index diff of each untracked path in the
\* order of the status scan.
GitDiffOutputs(h, ix, w) ==
    LET untracked == list_untracked_files(h, ix, w) IN
    [worktree |-> WorktreeDiff(h, ix, w),
     staged |-> StagedDiff(h, ix, w),
     untracked |-> [k \in 1..Len(untracked) |-> UntrackedDiff(untracked[k], w)]]

\* compute_diff (lines 44-73) on the texts git printed.
compute_diff_parts(out, mode, include_untracked) ==
    LET modeParts ==
            IF mode = "Worktree" THEN push_if_non_empty(<<>>, out.worktree)
            ELSE IF mode = "Staged" THEN push_if_non_empty(<<>>, out.staged)
            ELSE push_if_non_empty(push_if_non_empty(<<>>, out.worktree), out.staged)
        parts ==
            IF include_untracked THEN PushAll(modeParts, out.untracked) ELSE modeParts
    IN JoinParts(parts)

compute_diff(h, ix, w, mode, include_untracked) ==
    compute_diff_parts(GitDiffOutputs(h, ix, w), mode, include_untracked)

\* Mutant: the token is made of the number of lines only.
diff_hash_of_length(text) == <<"sha256", Len(text)>>

\* hash::diff_hash: sha256 of the text, taken to be collision free.
diff_hash(text) == <<"sha256", text>>

\* Mutant: the pre-image path is preferred.
normalize_diff_path_pre_image(a_path, b_path) ==
    IF a_path = None /\ b_path = None THEN None
    ELSE LET candidate == IF a_path # None THEN a_path[1] ELSE b_path[1]
             stripped == IF candidate.pfx = "b/" THEN candidate.path
                         ELSE IF candidate.pfx = "a/" THEN candidate.path
                         ELSE candidate.pfx \o candidate.path
         IN IF stripped = "/dev/null" \/ stripped = "" THEN None ELSE Some(stripped)

\* normalize_diff_path: b_path.or(a_path), strip_prefix("b/"), or else
\* strip_prefix("a/"), or else the token as it is.
normalize_diff_path(a_path, b_path) ==
    IF a_path = None /\ b_path = None THEN None
    ELSE LET candidate == IF b_path # None THEN b_path[1] ELSE a_path[1]
             stripped == IF candidate.pfx = "b/" THEN candidate.path
                         ELSE IF candidate.pfx = "a/" THEN candidate.path
                         ELSE candidate.pfx \o candidate.path
         IN IF stripped = "/dev/null" \/ stripped = "" THEN None ELSE Some(stripped)

diff_files(diff) ==
    UNION { LET line == diff[k]
                a_path == IF Len(line.toks) >= 1 THEN Some(line.toks[1]) ELSE None
                b_path == IF Len(line.toks) >= 2 THEN Some(line.toks[2]) ELSE None
            IN IF line.kind = "diff --git"
               THEN Range(normalize_diff_path(a_path, b_path))
               ELSE {}
          : k \in 1..Len(diff) }

\* --------------------------------------------------------- strings
\* A string is the sequence of its Unicode scalar values; a scalar is written
\* as a one-character string, and a fixed word of the program ("feat") as one
\* element. Str1(c) is the string of the single scalar c.
Str1(c) == <<c>>

RECURSIVE Repeat(_, _)
Repeat(c, n) == IF n = 0 THEN <<>> ELSE <<c>> \o Repeat(c, n - 1)

\* char::is_whitespace, is_ascii_lowercase, is_ascii_digit on the scalars
\* used here, and the number of bytes of a scalar in UTF-8.
is_whitespace(c) == c \in {" ", "\t"}
is_ascii_lowercase(c) == c \in {"a", "b", "c", "i", "l", "s", "x", "z"}
is_ascii_digit(c) == c \in {"0", "1", "9"}
Utf8Len(c) == IF c = "é" THEN 2 ELSE 1

\* str::chars().count() and str::len().
chars_count(s) == Len(s)

RECURSIVE ByteLen(_)
ByteLen(s) == IF s = <<>> THEN 0 ELSE Utf8Len(Head(s)) + ByteLen(Tail(s))

\* str::trim(): leading and trailing whitespace removed.
RECURSIVE trim_start(_)
trim_start(s) ==
    IF s # <<>> /\ is_whitespace(Head(s)) THEN trim_start(Tail(s)) ELSE s

RECURSIVE trim_end(_)
trim_end(s) ==
    IF s # <<>> /\ is_whitespace(s[Len(s)])
    THEN trim_end(SubSeq(s, 1, Len(s) - 1)) ELSE s

trim(s) == trim_end(trim_start(s))

\* ------------------------------------------------------- requests
CommitTypes ==
    {"Feat", "Fix", "Refactor", "Style", "Docs", "Test", "Chore", "Build",
     "Perf", "Ci"}

\* A CommitUnit: id, type, optional scope, summary, body lines, declared
\* files (in declaration order) and hunks.
CommitUnit(id, type_, scope, summary, body, files, hunks) ==
    [id |-> id, type_ |-> type_, scope |-> scope, summary |-> summary,
     body |-> body, files |-> files, hunks |-> hunks]

\* Declared file lists: sequences of distinct paths.
FileLists ==
    { s \in UNION { [1..n -> Files] : n \in 0..Cardinality(Files) } :
        \A j, k \in DOMAIN s : j # k => s[j] # s[k] }

UnitShapes ==
    { [files |-> fs, hunks |-> <<>>] : fs \in FileLists }
        \cup { [files |-> <<"a">>, hunks |-> <<"hunk">>] }

\* The message fields of the unit at position k of a plan given to
\* apply_plan directly: odd positions carry a scope, even ones none.
PlanType(k) == IF k % 2 = 1 THEN "Docs" ELSE "Fix"
PlanScope(k) == IF k % 2 = 1 THEN Some(<<"c", "l", "i">>) ELSE None
PlanSummary(k) == <<"s", " ", "x">>
PlanBody(k) == [j \in 1..(k % 3) |-> <<"l", "i">>]

\* Plans of up to MaxUnits units; the unit at position k has id k.
Plans ==
    { [k \in 1..Len(shapes) |->
            CommitUnit(k, PlanType(k), PlanScope(k), PlanSummary(k), PlanBody(k),
                       shapes[k].files, shapes[k].hunks)] :
        shapes \in UNION { [1..n -> UnitShapes] : n \in 0..MaxUnits } }

\* Diff texts a caller may supply itself (stdin, --diff-file, request body).
CallerDiffs ==
    { Flatten([k \in 1..Len(FileOrder) |->
            IF FileOrder[k] \in S THEN FileDiff(FileOrder[k], 1, 2) ELSE <<>>]) :
        S \in SUBSET Files }

ApplyRequest(plan, diff, source, diff_mode, include_untracked, expected, cleanup) ==
    [plan |-> plan, diff |-> diff, source |-> source, diff_mode |-> diff_mode,
     include_untracked |-> include_untracked, expected_diff_hash |-> expected,
     cleanup_on_error |-> cleanup]

EmptyRequest == ApplyRequest(<<>>, <<>>, "Diff", "All", TRUE, None, FALSE)

\* ------------------------------------------------- errors and results
GitError(kind, id, detail) == [kind |-> kind, id |-> id, detail |-> detail]
NoError == GitError("none", 0, <<>>)

ApplyResult(id, status, commit_hash) ==
    [id |-> id, status |-> status, commit_hash |-> commit_hash, error |-> None]

NotReturned == [tag |-> "none", results |-> <<>>, error |-> NoError]
Ok(rs) == [tag |-> "Ok", results |-> rs, error |-> NoError]
\* Mutant: the results gathered so far are returned with the error.
Err_with_results(e) == [tag |-> "Err", results |-> results, error |-> e]

Err(e) == [tag |-> "Err", results |-> <<>>, error |-> e]

GitCmd(cmd, unit, paths, ok, cleanup) ==
    [cmd |-> cmd, unit |-> unit, paths |-> paths, ok |-> ok, cleanup |-> cleanup]

\* ------------------------------------------------------------- Init
\* The repository when the diff snapshot is taken: "a" is tracked and is
\* clean, modified or modified and staged; "b" is a new path that is
\* absent, untracked or staged.
InitRepos ==
    { [head |-> [f \in Files |-> IF f = "a" THEN 1 ELSE 0],
       index |-> [f \in Files |-> IF f = "a" THEN ia ELSE ib],
       wt |-> [f \in Files |-> IF f = "a" THEN wa ELSE wb]] :
        ia \in {1, MaxContent}, wa \in {1, MaxContent},
        ib \in {0, 1}, wb \in {0, 1} }

Init ==
    /\ \E r \in InitRepos :
        /\ r.index["a"] \in {r.head["a"], r.wt["a"]}
        /\ r.index["b"] \in {r.head["b"], r.wt["b"]}
        /\ head = r.head /\ index = r.index /\ wt = r.wt
        /\ snap = r
    /\ commits = <<>>
    /\ writes = 0
    /\ req = EmptyRequest
    /\ atCall = [head |-> head, index |-> index, writes |-> 0]
    /\ pc = "idle"
    /\ i = 0
    /\ results = <<>>
    /\ error = NoError
    /\ ret = NotReturned
    /\ log = <<>>

callVars == <<req, atCall, pc, i, results, error, ret, log>>

\* ------------------------------------------------ other processes
\* Another process rewrites a file of the working tree (fs::write).
OtherEdit(f, v) ==
    /\ v # wt[f]
    /\ wt' = [wt EXCEPT ![f] = v]
    /\ writes' = writes + 1
    /\ UNCHANGED <<head, index, commits, snap, callVars>>

\* Another process stages a file (git add <f>).
OtherAdd(f) ==
    /\ wt[f] # 0 /\ wt[f] # index[f]
    /\ index' = [index EXCEPT ![f] = wt[f]]
    /\ writes' = writes + 1
    /\ UNCHANGED <<head, wt, commits, snap, callVars>>

\* ------------------------------------------------------ git commands
\* Mutant: `git reset -q` without paths, the whole index goes back to HEAD.
GitReset_all(ix, h, paths) == h

\* `git reset -q -- <paths>`: the index entries of the paths go back to HEAD.
GitReset(ix, h, paths) ==
    [f \in Files |-> IF f \in Range(paths) THEN h[f] ELSE ix[f]]

\* `git add -- <paths>` refuses a path that is neither in the working tree
\* nor in the index (pathspec did not match), and then stages nothing.
GitAddMatches(ix, w, paths) ==
    \A f \in Range(paths) : w[f] # 0 \/ ix[f] # 0

\* Mutant: `git add -u`, only paths the index already knows are staged.
GitAdd_tracked_only(ix, w, paths) ==
    [f \in Files |-> IF f \in Range(paths) /\ ix[f] # 0 THEN w[f] ELSE ix[f]]

GitAdd(ix, w, paths) ==
    [f \in Files |-> IF f \in Range(paths) THEN w[f] ELSE ix[f]]

\* `git diff --staged --name-only -z`, split at NUL.
list_staged_files(h, ix) ==
    SelectSeq(FileOrder, LAMBDA f : ix[f] # h[f])

\* `git commit` has something to commit when the index differs from HEAD.
GitCommitHasChanges(h, ix) == ix # h

\* --------------------------------------------------------- apply_plan
expected_hash(r) ==
    IF r.expected_diff_hash = None THEN diff_hash(r.diff) ELSE r.expected_diff_hash[1]

\* Mutant: the comparison with the expected token is left out.
verify_diff_hash_unchecked(h, ix, w, source, diff_mode, include_untracked, expected, gitOk) ==
    IF source = "Diff" THEN NoError
    ELSE IF ~gitOk THEN GitError("CommandFailed", 0, <<"diff">>)
    ELSE NoError

\* Mutant: the mismatch error repeats the expected token as the actual one.
verify_diff_hash_one_token(h, ix, w, source, diff_mode, include_untracked, expected, gitOk) ==
    IF source = "Diff" THEN NoError
    ELSE IF ~gitOk THEN GitError("CommandFailed", 0, <<"diff">>)
    ELSE IF diff_hash(compute_diff(h, ix, w, diff_mode, include_untracked)) # expected
         THEN GitError("DiffHashMismatch", 0, <<expected, expected>>)
         ELSE NoError

\* Mutant: the diff is recomputed and compared whatever the source.
verify_diff_hash_any_source(h, ix, w, source, diff_mode, include_untracked, expected, gitOk) ==
    IF ~gitOk THEN GitError("CommandFailed", 0, <<"diff">>)
    ELSE LET current == compute_diff(h, ix, w, diff_mode, include_untracked)
             actual == diff_hash(current)
         IN IF actual # expected
            THEN GitError("DiffHashMismatch", 0, <<expected, actual>>)
            ELSE NoError

\* verify_diff_hash: NoError stands for Ok(()).
verify_diff_hash(h, ix, w, source, diff_mode, include_untracked, expected, gitOk) ==
    IF source = "Diff" THEN NoError
    ELSE IF ~gitOk THEN GitError("CommandFailed", 0, <<"diff">>)
    ELSE LET current == compute_diff(h, ix, w, diff_mode, include_untracked)
             actual == diff_hash(current)
         IN IF actual # expected
            THEN GitError("DiffHashMismatch", 0, <<expected, actual>>)
            ELSE NoError

\* Outcomes of running git: a diff is only run when the source is Repo.
DiffRuns == IF req.source = "Repo" THEN BOOLEAN ELSE {TRUE}

Return(value) ==
    /\ ret' = value
    /\ pc' = "done"

\* Mutant: the error is returned without the cleanup.
Fail_no_cleanup(e) ==
    /\ Return(Err(e))
    /\ UNCHANGED error

\* Mutant: the failing unit's staging is started again.
Fail_retry(e) ==
    /\ pc' = "reset"
    /\ UNCHANGED <<error, ret>>

\* Mutant: the cleanup runs whatever cleanup_on_error is.
Fail_always_cleanup(e) ==
    /\ error' = e
    /\ pc' = "cleanup"
    /\ UNCHANGED ret

\* The error branch of apply_plan's staging chain (lines 124-129).
Fail(e) ==
    IF req.cleanup_on_error
    THEN /\ error' = e
         /\ pc' = "cleanup"
         /\ UNCHANGED ret
    ELSE /\ Return(Err(e))
         /\ UNCHANGED error

\* The caller takes the snapshot's diff (source Repo) or supplies a text of
\* its own (source Diff) and calls apply_plan.
Call(plan, source, diff_mode, include_untracked, callerDiff, token, cleanup) ==
    /\ LET diff == IF source = "Repo"
                   THEN compute_diff(snap.head, snap.index, snap.wt, diff_mode, include_untracked)
                   ELSE callerDiff
           expected == IF token = "none" THEN None
                       ELSE Some(diff_hash(<<BlankLine>>))
       IN req' = ApplyRequest(plan, diff, source, diff_mode, include_untracked,
                              expected, cleanup)
    /\ atCall' = [head |-> head, index |-> index, writes |-> writes]
    /\ pc' = "entry"
    /\ UNCHANGED <<repoVars, snap, writes, i, results, error, ret, log>>

\* Lines 76-87: the check before the first unit.
VerifyFirst ==
    /\ pc = "entry"
    /\ \E gitOk \in DiffRuns :
        LET e == verify_diff_hash(head, index, wt, req.source, req.diff_mode,
                                  req.include_untracked, expected_hash(req), gitOk)
        IN IF e.kind # "none"
           THEN Return(Err(e)) /\ UNCHANGED i
           ELSE pc' = "loop" /\ i' = 1 /\ UNCHANGED ret
    /\ UNCHANGED <<repoVars, snap, writes, req, atCall, results, error, log>>

\* Line 132: the loop is over.
Finish ==
    /\ pc = "loop"
    /\ i > Len(req.plan)
    /\ Return(Ok(results))
    /\ UNCHANGED <<repoVars, snap, writes, req, atCall, i, results, error, log>>

\* Lines 91-97: the check at the start of a unit's iteration.
VerifyUnit ==
    /\ pc = "loop"
    /\ i <= Len(req.plan)
    /\ \E gitOk \in DiffRuns :
        LET e == verify_diff_hash(head, index, wt, req.source, req.diff_mode,
                                  req.include_untracked, expected_hash(req), gitOk)
        IN IF e.kind # "none"
           THEN Return(Err(e))
           ELSE pc' = "check" /\ UNCHANGED ret
    /\ UNCHANGED <<repoVars, snap, writes, req, atCall, i, results, error, log>>

\* Mutant: the last missing file is reported.
FirstMissing_last(files, present) ==
    LET missing == SelectSeq(files, LAMBDA f : f \notin present)
    IN IF missing = <<>> THEN None ELSE Some(missing[Len(missing)])

\* The first declared file that the diff's file set lacks, if any.
FirstMissing(files, present) ==
    LET missing == SelectSeq(files, LAMBDA f : f \notin present)
    IN IF missing = <<>> THEN None ELSE Some(Head(missing))

\* Lines 98-109: hunks, then declared files against the diff's file set.
CheckUnit ==
    /\ pc = "check"
    /\ LET unit == req.plan[i]
           missing == FirstMissing(unit.files, diff_files(req.diff))
       IN IF unit.hunks # <<>>
          THEN Return(Err(GitError("HunksNotSupported", unit.id, <<>>)))
          ELSE IF missing # None
          THEN Return(Err(GitError("PlanFileMissing", unit.id, missing)))
          ELSE pc' = "reset" /\ UNCHANGED ret
    /\ UNCHANGED <<repoVars, snap, writes, req, atCall, i, results, error, log>>

\* Mutant: stage_files without its test for an empty file list; `git reset
\* -q --` without paths takes the whole index back to HEAD.
StageReset_without_guard ==
    /\ pc = "reset"
    /\ LET unit == req.plan[i] IN
       \E gitOk \in BOOLEAN :
            /\ log' = Append(log, GitCmd("reset", i, unit.files, gitOk, FALSE))
            /\ IF gitOk
               THEN /\ index' = IF unit.files = <<>> THEN head
                                 ELSE GitReset(index, head, unit.files)
                    /\ pc' = "add"
                    /\ UNCHANGED <<error, ret>>
               ELSE /\ Fail(GitError("CommandFailed", unit.id, <<"reset">>))
                    /\ UNCHANGED index
    /\ UNCHANGED <<head, wt, commits, snap, writes, req, atCall, i, results>>

\* stage_files, first half (lines 171-175): nothing to do for an empty file
\* list, else `git reset -q -- <files>`.
StageReset ==
    /\ pc = "reset"
    /\ LET unit == req.plan[i] IN
       IF unit.files = <<>>
       THEN /\ pc' = "verify_staged"
            /\ UNCHANGED <<index, error, ret, log>>
       ELSE \E gitOk \in BOOLEAN :
            /\ log' = Append(log, GitCmd("reset", i, unit.files, gitOk, FALSE))
            /\ IF gitOk
               THEN /\ index' = GitReset(index, head, unit.files)
                    /\ pc' = "add"
                    /\ UNCHANGED <<error, ret>>
               ELSE /\ Fail(GitError("CommandFailed", unit.id, <<"reset">>))
                    /\ UNCHANGED index
    /\ UNCHANGED <<head, wt, commits, snap, writes, req, atCall, i, results>>

\* stage_files, second half (line 176): `git add -- <files>`.
StageAdd ==
    /\ pc = "add"
    /\ LET unit == req.plan[i] IN
       \E gitOk \in BOOLEAN :
       LET ok == gitOk /\ GitAddMatches(index, wt, unit.files) IN
       /\ log' = Append(log, GitCmd("add", i, unit.files, ok, FALSE))
       /\ IF ok
          THEN /\ index' = GitAdd(index, wt, unit.files)
               /\ pc' = "verify_staged"
               /\ UNCHANGED <<error, ret>>
          ELSE /\ Fail(GitError("CommandFailed", unit.id, <<"add">>))
               /\ UNCHANGED index
    /\ UNCHANGED <<head, wt, commits, snap, writes, req, atCall, i, results>>

\* Mutant: only the empty staged set is refused.
verify_staged_files_no_subset(staged, unit, gitOk) ==
    IF ~gitOk THEN GitError("CommandFailed", unit.id, <<"diff --staged --name-only">>)
    ELSE IF staged = <<>> THEN GitError("StagedDiffEmpty", unit.id, <<>>)
    ELSE NoError

\* Mutant: the staged set has to be the declared set.
verify_staged_files_exact(staged, unit, gitOk) ==
    IF ~gitOk THEN GitError("CommandFailed", unit.id, <<"diff --staged --name-only">>)
    ELSE IF staged = <<>> THEN GitError("StagedDiffEmpty", unit.id, <<>>)
    ELSE IF Range(staged) # Range(unit.files)
         THEN GitError("StagedFilesMismatch", unit.id, <<unit.files, staged>>)
         ELSE NoError

\* verify_staged_files (lines 188-204); NoError stands for Ok(()).
verify_staged_files(staged, unit, gitOk) ==
    IF ~gitOk THEN GitError("CommandFailed", unit.id, <<"diff --staged --name-only">>)
    ELSE IF staged = <<>> THEN GitError("StagedDiffEmpty", unit.id, <<>>)
    ELSE LET expected == Range(unit.files)
             actual == Range(staged)
         IN IF ~(actual \subseteq expected) \/ actual = {}
            THEN GitError("StagedFilesMismatch", unit.id, <<unit.files, staged>>)
            ELSE NoError

VerifyStaged ==
    /\ pc = "verify_staged"
    /\ \E gitOk \in BOOLEAN :
        LET e == verify_staged_files(list_staged_files(head, index), req.plan[i], gitOk)
        IN IF e.kind # "none"
           THEN Fail(e)
           ELSE pc' = "commit" /\ UNCHANGED <<error, ret>>
    /\ UNCHANGED <<repoVars, snap, writes, req, atCall, i, results, log>>

\* commit_type_str: the word git.rs writes for each commit type.
commit_type_str(commit_type) ==
    CASE commit_type = "Feat" -> <<"feat">>
      [] commit_type = "Fix" -> <<"fix">>
      [] commit_type = "Refactor" -> <<"refactor">>
      [] commit_type = "Style" -> <<"style">>
      [] commit_type = "Docs" -> <<"docs">>
      [] commit_type = "Test" -> <<"test">>
      [] commit_type = "Chore" -> <<"chore">>
      [] commit_type = "Build" -> <<"build">>
      [] commit_type = "Perf" -> <<"perf">>
      [] commit_type = "Ci" -> <<"ci">>

\* Mutant: the scope is written in parentheses.
commit_header_parentheses(unit) ==
    LET type_str == commit_type_str(unit.type_) IN
    IF unit.scope # None
    THEN type_str \o <<"(">> \o unit.scope[1] \o <<")", ":", " ">> \o unit.summary
    ELSE type_str \o <<":", " ">> \o unit.summary

\* commit_header: "{type_str}[{scope}]: {summary}" or "{type_str}: {summary}".
commit_header(unit) ==
    LET type_str == commit_type_str(unit.type_) IN
    IF unit.scope # None
    THEN type_str \o <<"[">> \o unit.scope[1] \o <<"]", ":", " ">> \o unit.summary
    ELSE type_str \o <<":", " ">> \o unit.summary

\* The -m arguments of `git commit` (lines 218-224): the header, then one
\* per body line; git makes each a paragraph of the message, in this order.
commit_args(unit) == <<commit_header(unit)>> \o unit.body

\* commit_unit, first half (lines 218-235): `git commit -m ...`.
Commit ==
    /\ pc = "commit"
    /\ LET unit == req.plan[i] IN
       \E gitOk \in BOOLEAN :
       LET ok == gitOk /\ GitCommitHasChanges(head, index) IN
       /\ log' = Append(log, GitCmd("commit", i, <<>>, ok, FALSE))
       /\ IF ok
          THEN /\ head' = index
               /\ commits' = Append(commits,
                      [unit |-> unit.id, pos |-> i,
                       files |-> {f \in Files : index[f] # head[f]},
                       message |-> commit_args(unit)])
               /\ pc' = "rev_parse"
               /\ UNCHANGED <<error, ret>>
          ELSE /\ Fail(GitError("CommandFailed", unit.id, <<"commit">>))
               /\ UNCHANGED <<head, commits>>
    /\ UNCHANGED <<index, wt, snap, writes, req, atCall, i, results>>

\* commit_unit, second half (lines 237-238) and the closure of lines
\* 115-123: `git rev-parse HEAD`, then the unit's result is pushed.
RevParse ==
    /\ pc = "rev_parse"
    /\ LET unit == req.plan[i] IN
       \E gitOk \in BOOLEAN :
       IF gitOk
       THEN /\ results' = Append(results,
                   ApplyResult(unit.id, "Applied", Some(Len(commits))))
            /\ i' = i + 1
            /\ pc' = "loop"
            /\ UNCHANGED <<error, ret>>
       ELSE /\ Fail(GitError("CommandFailed", unit.id, <<"rev-parse">>))
            /\ UNCHANGED <<results, i>>
    /\ UNCHANGED <<repoVars, snap, writes, req, atCall, log>>

\* Mutant: the cleanup also takes back the commits the call made.
Cleanup_rollback ==
    /\ pc = "cleanup"
    /\ head' = atCall.head
    /\ commits' = <<>>
    /\ index' = GitReset(index, atCall.head, req.plan[i].files)
    /\ Return(Err(error))
    /\ UNCHANGED <<wt, snap, writes, req, atCall, i, results, error, log>>

\* Mutant: a failure of the cleanup's reset is returned in place of the
\* error that led to the cleanup.
Cleanup_masking ==
    /\ pc = "cleanup"
    /\ LET unit == req.plan[i] IN
       IF unit.files = <<>>
       THEN /\ Return(Err(error))
            /\ UNCHANGED <<index, log>>
       ELSE \E gitOk \in BOOLEAN :
            /\ log' = Append(log, GitCmd("reset", i, unit.files, gitOk, TRUE))
            /\ index' = IF gitOk THEN GitReset(index, head, unit.files) ELSE index
            /\ Return(Err(IF gitOk THEN error
                          ELSE GitError("CommandFailed", unit.id, <<"reset", "cleanup">>)))
    /\ UNCHANGED <<head, wt, commits, snap, writes, req, atCall, i, results, error>>

\* Lines 125-128: reset_files on the failing unit's files, its own result
\* dropped, then the original error is returned.
Cleanup ==
    /\ pc = "cleanup"
    /\ LET unit == req.plan[i] IN
       IF unit.files = <<>>
       THEN UNCHANGED <<index, log>>
       ELSE \E gitOk \in BOOLEAN :
            /\ log' = Append(log, GitCmd("reset", i, unit.files, gitOk, TRUE))
            /\ index' = IF gitOk THEN GitReset(index, head, unit.files) ELSE index
    /\ Return(Err(error))
    /\ UNCHANGED <<head, wt, commits, snap, writes, req, atCall, i, results, error>>

Tokens == {"none", "other"}

\* The caller's choice of request, with the diff taken from the repository.
CallRepo ==
    /\ pc = "idle"
    /\ \E plan \in Plans, mode \in Modes, untracked \in BOOLEAN, token \in Tokens,
          cleanup \in BOOLEAN :
            Call(plan, "Repo", mode, untracked, <<>>, token, cleanup)

\* The caller's choice of request, with a diff text of its own.
CallDiff ==
    /\ pc = "idle"
    /\ \E plan \in Plans, callerDiff \in CallerDiffs, token \in Tokens,
          cleanup \in BOOLEAN :
            Call(plan, "Diff", "All", TRUE, callerDiff, token, cleanup)

OtherWrite ==
    /\ pc # "done"
    /\ writes < MaxWrites
    /\ \/ \E f \in Files, v \in 1..MaxContent : OtherEdit(f, v)
       \/ \E f \in Files : OtherAdd(f)

Next ==
    \/ OtherWrite
    \/ CallRepo
    \/ CallDiff
    \/ VerifyFirst
    \/ Finish
    \/ VerifyUnit
    \/ CheckUnit
    \/ StageReset
    \/ StageAdd
    \/ VerifyStaged
    \/ Commit
    \/ RevParse
    \/ Cleanup

Spec == Init /\ [][Next]_vars

\* ------------------------------------------------ semantic validation
\* semantic.rs: validate_commit_units and validate_commit_unit. An error or
\* warning is [kind, id, n]: n is the length, count or index it carries
\* (0 when the kind carries none).
SummaryMin == 50
SummaryMax == 72
BodyMin == 1
BodyMax == 3

ScopePolicies == {"Require", "Allow", "Warn"}

SemanticValidationError(kind, id, n) == [kind |-> kind, id |-> id, n |-> n]
SemanticWarning(kind, id) == [kind |-> kind, id |-> id, n |-> 0]

\* Lines 69-74.
check_id(unit) ==
    IF trim(unit.id) = <<>>
    THEN <<SemanticValidationError("EmptyId", unit.id, 0)>>
    ELSE <<>>

\* Mutant: the summary is measured in bytes.
check_summary_bytes(unit) ==
    LET summary_len == ByteLen(unit.summary) IN
    IF summary_len < SummaryMin \/ summary_len > SummaryMax
    THEN <<SemanticValidationError("SummaryLength", unit.id, summary_len)>>
    ELSE <<>>

\* Lines 76-82.
check_summary(unit) ==
    LET summary_len == chars_count(unit.summary) IN
    IF summary_len < SummaryMin \/ summary_len > SummaryMax
    THEN <<SemanticValidationError("SummaryLength", unit.id, summary_len)>>
    ELSE <<>>

\* Lines 84-90.
check_body_count(unit) ==
    LET body_len == Len(unit.body) IN
    IF body_len < BodyMin \/ body_len > BodyMax
    THEN <<SemanticValidationError("BodyLineCount", unit.id, body_len)>>
    ELSE <<>>

\* Mutant: the index reported is one-based.
check_body_lines_one_based(unit) ==
    Flatten([k \in 1..Len(unit.body) |->
        IF trim(unit.body[k]) = <<>>
        THEN <<SemanticValidationError("BodyLineEmpty", unit.id, k)>>
        ELSE <<>>])

\* Lines 92-99: idx counts from zero.
check_body_lines(unit) ==
    Flatten([k \in 1..Len(unit.body) |->
        IF trim(unit.body[k]) = <<>>
        THEN <<SemanticValidationError("BodyLineEmpty", unit.id, k - 1)>>
        ELSE <<>>])

\* Mutant: a leading or trailing hyphen is let through.
is_kebab_case_any_hyphen(value) ==
    /\ value # <<>>
    /\ \A k \in 1..Len(value) :
            is_ascii_lowercase(value[k]) \/ is_ascii_digit(value[k]) \/ value[k] = "-"

\* Lines 125-133.
is_kebab_case(value) ==
    IF value = <<>> \/ Head(value) = "-" \/ value[Len(value)] = "-"
    THEN FALSE
    ELSE \A k \in 1..Len(value) :
            is_ascii_lowercase(value[k]) \/ is_ascii_digit(value[k]) \/ value[k] = "-"

\* Mutant: Warn is treated as Require.
check_scope_warn_is_error(unit, scope_policy) ==
    IF unit.scope # None /\ trim(unit.scope[1]) = <<>>
    THEN [errors |-> <<SemanticValidationError("ScopeEmpty", unit.id, 0)>>, warnings |-> <<>>]
    ELSE IF unit.scope # None /\ ~is_kebab_case(unit.scope[1])
    THEN [errors |-> <<SemanticValidationError("ScopeInvalid", unit.id, 0)>>, warnings |-> <<>>]
    ELSE IF unit.scope = None /\ scope_policy \in {"Require", "Warn"}
    THEN [errors |-> <<SemanticValidationError("ScopeMissing", unit.id, 0)>>, warnings |-> <<>>]
    ELSE [errors |-> <<>>, warnings |-> <<>>]

\* Lines 101-122: the match on unit.scope, arms tried in order.
check_scope(unit, scope_policy) ==
    IF unit.scope # None /\ trim(unit.scope[1]) = <<>>
    THEN [errors |-> <<SemanticValidationError("ScopeEmpty", unit.id, 0)>>, warnings |-> <<>>]
    ELSE IF unit.scope # None /\ ~is_kebab_case(unit.scope[1])
    THEN [errors |-> <<SemanticValidationError("ScopeInvalid", unit.id, 0)>>, warnings |-> <<>>]
    ELSE IF unit.scope = None /\ scope_policy = "Require"
    THEN [errors |-> <<SemanticValidationError("ScopeMissing", unit.id, 0)>>, warnings |-> <<>>]
    ELSE IF unit.scope = None /\ scope_policy = "Warn"
    THEN [errors |-> <<>>, warnings |-> <<SemanticWarning("ScopeMissing", unit.id)>>]
    ELSE [errors |-> <<>>, warnings |-> <<>>]

\* validate_commit_unit: what it pushes onto errors and warnings, in order.
validate_commit_unit(unit, scope_policy) ==
    LET sc == check_scope(unit, scope_policy) IN
    [errors |-> check_id(unit) \o check_summary(unit) \o check_body_count(unit)
                    \o check_body_lines(unit) \o sc.errors,
     warnings |-> sc.warnings]

\* The state of the loop of validate_commit_units after all of `units`.
RECURSIVE validate_loop(_, _)
validate_loop(units, scope_policy) ==
    IF units = <<>> THEN [errors |-> <<>>, warnings |-> <<>>]
    ELSE LET n == Len(units)
             before == validate_loop(SubSeq(units, 1, n - 1), scope_policy)
             this == validate_commit_unit(units[n], scope_policy)
         IN [errors |-> before.errors \o this.errors,
             warnings |-> before.warnings \o this.warnings]

SemanticOk(warnings) == [tag |-> "Ok", warnings |-> warnings, errors |-> <<>>]
SemanticErr(errors) == [tag |-> "Err", warnings |-> <<>>, errors |-> errors]

\* Mutant: the loop stops at the first unit that has an error.
RECURSIVE validate_commit_units_first_error(_, _)
validate_commit_units_first_error(units, scope_policy) ==
    IF units = <<>> THEN SemanticOk(<<>>)
    ELSE LET this == validate_commit_unit(Head(units), scope_policy)
             rest == validate_commit_units_first_error(Tail(units), scope_policy)
         IN IF this.errors # <<>> THEN SemanticErr(this.errors)
            ELSE IF rest.tag = "Err" THEN rest
            ELSE SemanticOk(this.warnings \o rest.warnings)

\* Lines 46-61.
validate_commit_units(units, scope_policy) ==
    LET end == validate_loop(units, scope_policy) IN
    IF end.errors = <<>> THEN SemanticOk(end.warnings) ELSE SemanticErr(end.errors)

\* The plans validate_commit_units is tried on. One field at a time runs
\* through all its values up to the bounds while the other fields of the unit
\* are valid; SampleUnits combine good and bad values of all fields and make
\* up the plans of several units.
MaxScopeLen == 2        \* longest scope tried
MaxBodyLines == 4       \* longest body tried (one more than BodyMax)
MaxSummaryOver == 2     \* summaries run up to SummaryMax + MaxSummaryOver

GoodId == <<"c", "1">>
GoodSummary == Repeat("s", SummaryMin)
GoodBody == << <<"l">> >>
GoodScope == Some(<<"c", "l", "i">>)

ValidatorUnit(id, scope, summary, body) ==
    CommitUnit(id, "Docs", scope, summary, body, <<"a">>, <<>>)

SweepSummaries ==
    { Repeat("s", n) : n \in 0..(SummaryMax + MaxSummaryOver) }
        \cup { <<"é">> \o Repeat("s", n) : n \in 0..(SummaryMax + MaxSummaryOver - 1) }
        \cup { Repeat(" ", SummaryMin) }

BodyLines == { <<>>, <<" ">>, <<"l">>, <<"\t", " ">>, <<" ", "l">> }
SweepBodies == UNION { [1..n -> BodyLines] : n \in 0..MaxBodyLines }

ScopeChars == {"a", "0", "-", "B", "_", " ", "é"}
SweepScopes ==
    {None} \cup { Some(sc) : sc \in UNION { [1..n -> ScopeChars] : n \in 0..MaxScopeLen } }

SampleUnits ==
    { ValidatorUnit(id, sc, su, bd) :
        id \in {GoodId, <<" ">>},
        sc \in {None, GoodScope, Some(<<"-", "c">>)},
        su \in {GoodSummary, Repeat("s", SummaryMin - 1)},
        bd \in {GoodBody, << <<" ">>, <<"l">>, <<>>, <<"l">> >>} }

ValidatorUnits ==
    { ValidatorUnit(GoodId, GoodScope, su, GoodBody) : su \in SweepSummaries }
        \cup { ValidatorUnit(GoodId, GoodScope, GoodSummary, bd) : bd \in SweepBodies }
        \cup { ValidatorUnit(GoodId, sc, GoodSummary, GoodBody) : sc \in SweepScopes }
        \cup { ValidatorUnit(<<>>, None, GoodSummary, GoodBody) }
        \cup SampleUnits

ValidatorPlans ==
    { <<u>> : u \in ValidatorUnits }
        \cup UNION { [1..n -> SampleUnits] : n \in {0} \cup 2..MaxUnits }

InitValidate ==
    /\ head = [f \in Files |-> IF f = "a" THEN 1 ELSE 0]
    /\ index = head
    /\ wt = head
    /\ snap = [head |-> head, index |-> index, wt |-> wt]
    /\ commits = <<>>
    /\ writes = 0
    /\ \E units \in ValidatorPlans, scope_policy \in ScopePolicies :
            req = [units |-> units, scope_policy |-> scope_policy]
    /\ atCall = [head |-> head, index |-> index, writes |-> 0]
    /\ pc = "validate"
    /\ i = 0
    /\ results = <<>>
    /\ error = NoError
    /\ ret = NotReturned
    /\ log = <<>>

\* A caller runs validate_commit_units on the plan.
Validate ==
    /\ pc = "validate"
    /\ ret' = validate_commit_units(req.units, req.scope_policy)
    /\ pc' = "validated"
    /\ UNCHANGED <<repoVars, snap, writes, req, atCall, i, results, error, log>>

NextValidate == Validate

SpecValidate == InitValidate /\ [][NextValidate]_vars

\* ------------------------------------------- apply_plan, commit messages
\* apply_plan called on plans whose units differ in type, scope, summary and
\* body, as tests/git_apply.rs does with sample_plan: "a" is modified, "b" is
\* new, the caller's diff names both, unit k declares the k-th path.
MessageScopes ==
    {None, Some(<<>>), Some(<<"c", "l", "i">>), Some(<<"a", "-", "b">>)}
MessageSummaries == {<<"s">>, <<"s", " ", "x">>}
MessageLines == {<<"l">>, <<"x", " ", "l">>}
MessageBodies == UNION { [1..n -> MessageLines] : n \in 0..2 }

MessageUnits(k) ==
    { CommitUnit(k, t, sc, su, bd,
                 <<FileOrder[((k - 1) % Len(FileOrder)) + 1]>>, <<>>) :
        t \in CommitTypes, sc \in MessageScopes, su \in MessageSummaries,
        bd \in MessageBodies }

\* Later units of a longer plan take their message from a smaller choice.
FewMessageUnits(k) ==
    { u \in MessageUnits(k) :
        /\ u.type_ \in {"Feat", "Ci"}
        /\ u.scope \in {None, Some(<<"c", "l", "i">>)}
        /\ u.summary = <<"s">>
        /\ Len(u.body) # 1 }

FewMessageUnitsAt == [k \in 1..MaxUnits |-> FewMessageUnits(k)]

MessagePlans ==
    { <<u>> : u \in MessageUnits(1) }
        \cup UNION { { p \in [1..n -> UNION { FewMessageUnitsAt[k] : k \in 1..n }] :
                        \A k \in 1..n : p[k] \in FewMessageUnitsAt[k] } :
                     n \in 2..MaxUnits }

InitCommit ==
    /\ head = [f \in Files |-> IF f = "a" THEN 1 ELSE 0]
    /\ index = head
    /\ wt = [f \in Files |-> IF f = "a" THEN 2 ELSE 1]
    /\ snap = [head |-> head, index |-> index, wt |-> wt]
    /\ commits = <<>>
    /\ writes = 0
    /\ \E plan \in MessagePlans, cleanup \in BOOLEAN :
            req = ApplyRequest(plan, FileDiff("a", 1, 2) \o FileDiff("b", 0, 1),
                               "Diff", "All", TRUE, None, cleanup)
    /\ atCall = [head |-> head, index |-> index, writes |-> 0]
    /\ pc = "entry"
    /\ i = 0
    /\ results = <<>>
    /\ error = NoError
    /\ ret = NotReturned
    /\ log = <<>>

NextCommit ==
    \/ VerifyFirst
    \/ Finish
    \/ VerifyUnit
    \/ CheckUnit
    \/ StageReset
    \/ StageAdd
    \/ VerifyStaged
    \/ Commit
    \/ RevParse
    \/ Cleanup

SpecCommit == InitCommit /\ [][NextCommit]_vars

\* =============================================================== claims
Returned == pc = "done"
Failed == Returned /\ ret.tag = "Err"
NoOtherWriteInCall == writes = atCall.writes

\* The repository's diff, recomputed with the request's mode and flag, no
\* longer has the expected fingerprint.
Stale ==
    diff_hash(compute_diff(head, index, wt, req.diff_mode, req.include_untracked))
        # expected_hash(req)

\* C1: with source Repo, when the recomputed diff no longer has the expected
\* fingerprint as apply_plan starts (and the diff could be recomputed), the
\* first step of apply_plan returns DiffHashMismatch; no reset, add or commit
\* has been issued, and HEAD, the index and the history are left as they were.
C1_StaleSnapshotRejected ==
    [][ (pc = "entry" /\ pc' # "entry" /\ req.source = "Repo" /\ Stale
            /\ ~(pc' = "done" /\ ret'.error.kind = "CommandFailed"))
        => /\ pc' = "done"
           /\ ret'.tag = "Err"
           /\ ret'.error.kind = "DiffHashMismatch"
           /\ log' = <<>>
           /\ head' = atCall.head /\ head' = head
           /\ index' = index
           /\ commits' = <<>> ]_vars

\* C1 witness: a file was rewritten after the snapshot and the call ended
\* with DiffHashMismatch before the first unit.
C1_Witness ==
    /\ Failed
    /\ req.source = "Repo"
    /\ req.expected_diff_hash = None
    /\ req.plan # <<>>
    /\ wt # snap.wt
    /\ i = 0
    /\ ret.error.kind = "DiffHashMismatch"
    /\ log = <<>>

\* C2: with source Repo the fingerprint is compared again at the start of
\* every unit's iteration, before the unit's own checks: when it differs at
\* unit k (and the diff could be recomputed) the call returns
\* DiffHashMismatch carrying the expected and the actual token, whatever the
\* unit declares, and no reset, add or commit is issued for unit k or later.
C2_RecheckedBeforeEveryUnit ==
    [][ (pc = "loop" /\ i <= Len(req.plan) /\ pc' # "loop" /\ req.source = "Repo"
            /\ Stale /\ ~(pc' = "done" /\ ret'.error.kind = "CommandFailed"))
        => /\ pc' = "done"
           /\ ret'.tag = "Err"
           /\ ret'.error.kind = "DiffHashMismatch"
           /\ ret'.error.detail =
                << expected_hash(req),
                   diff_hash(compute_diff(head, index, wt, req.diff_mode,
                                          req.include_untracked)) >>
           /\ ret'.error.detail[1] # ret'.error.detail[2]
           /\ log' = log
           /\ \A k \in 1..Len(log') : log'[k].unit < i ]_vars

\* C2 witness: the comparison failed at the second unit, after the first
\* unit's commit, and nothing was issued for the second unit.
C2_Witness ==
    /\ Failed
    /\ req.source = "Repo"
    /\ ret.error.kind = "DiffHashMismatch"
    /\ i = 2
    /\ Len(commits) = 1
    /\ req.plan[2].hunks # <<>>
    /\ \A k \in 1..Len(log) : log[k].unit = 1

\* The staging chain of the unit at hand ended with an error of this kind
\* (kept in `error` while the cleanup runs, else returned at once).
FailsWith(kind, e, p, r) ==
    \/ p = "cleanup" /\ e.kind = kind
    \/ p = "done" /\ r.tag = "Err" /\ r.error.kind = kind

\* C3: the commit step of a unit is reached only when the staged set read
\* back (and it could be read) is non-empty and within the unit's declared
\* files; an empty staged set gives StagedDiffEmpty and a staged file outside
\* the declared files gives StagedFilesMismatch with the unit's id, its
\* declared files and the staged files. And when no other process writes
\* during the call, every commit made touches only files its unit declares.
C3_StagedSetGuardsCommit ==
    /\ [][ (pc = "verify_staged" /\ pc' # "verify_staged") =>
            LET unit == req.plan[i]
                staged == list_staged_files(head, index)
            IN /\ pc' = "commit" =>
                    (staged # <<>> /\ Range(staged) \subseteq Range(unit.files))
               /\ (staged = <<>> /\ ~FailsWith("CommandFailed", error', pc', ret'))
                    => FailsWith("StagedDiffEmpty", error', pc', ret')
               /\ (staged # <<>> /\ ~(Range(staged) \subseteq Range(unit.files))
                        /\ ~FailsWith("CommandFailed", error', pc', ret'))
                    => /\ FailsWith("StagedFilesMismatch", error', pc', ret')
                       /\ LET e == IF pc' = "cleanup" THEN error' ELSE ret'.error
                          IN e.id = unit.id /\ e.detail = <<unit.files, staged>>
               /\ pc' # "commit" => (log' = log /\ commits' = commits) ]_vars
    /\ [][ (Len(log') > Len(log) /\ log'[Len(log')].cmd = "commit")
            => (pc = "commit" /\ log'[Len(log')].unit = i) ]_vars
    /\ [](NoOtherWriteInCall =>
            \A k \in 1..Len(commits) :
                /\ commits[k].files # {}
                /\ commits[k].files \subseteq Range(req.plan[commits[k].pos].files))

\* C3 witness: with no other writer, a unit declaring two files was
\* committed with only one of them staged, and the next unit was refused
\* because its staged set was empty.
C3_Witness ==
    /\ Failed
    /\ NoOtherWriteInCall
    /\ Len(commits) = 1
    /\ Len(req.plan[1].files) = 2
    /\ Cardinality(commits[1].files) = 1
    /\ ret.error.kind = "StagedDiffEmpty"
    /\ i = 2

\* C4 as claimed: when some unit of the plan declares hunks or names a file
\* that the snapshot's file set lacks, the call issues no reset, add or
\* commit at all.
C4_IllFormedPlanTouchesNothing ==
    (Returned /\ \E k \in 1..Len(req.plan) :
                    \/ req.plan[k].hunks # <<>>
                    \/ ~(Range(req.plan[k].files) \subseteq diff_files(req.diff)))
        => /\ log = <<>>
           /\ commits = <<>>
           /\ head = atCall.head
           /\ NoOtherWriteInCall => index = atCall.index

\* The position in `files` of the first file that `present` lacks (0: none).
FirstAbsent(files, present) ==
    IF \A k \in 1..Len(files) : files[k] \in present THEN 0
    ELSE CHOOSE k \in 1..Len(files) :
            /\ files[k] \notin present
            /\ \A j \in 1..(k - 1) : files[j] \in present

\* C5: for each unit the hunks check and then the declared-files check run
\* before any reset or add of that unit: hunks give HunksNotSupported(id);
\* else a declared file missing from the diff's file set gives
\* PlanFileMissing(id, first such file in declaration order); else the unit
\* goes on to staging. On either error the call returns with nothing issued
\* for this unit or a later one.
C5_UnitChecksBeforeStaging ==
    /\ [][ (pc = "check" /\ pc' # "check") =>
            LET unit == req.plan[i]
                k == FirstAbsent(unit.files, diff_files(req.diff))
            IN /\ log' = log /\ index' = index /\ commits' = commits
               /\ \A n \in 1..Len(log) : log[n].unit < i
               /\ IF unit.hunks # <<>>
                  THEN /\ pc' = "done"
                       /\ ret' = Err(GitError("HunksNotSupported", unit.id, <<>>))
                  ELSE IF k # 0
                  THEN /\ pc' = "done"
                       /\ ret' = Err(GitError("PlanFileMissing", unit.id, <<unit.files[k]>>))
                  ELSE pc' = "reset" ]_vars
    /\ []((Failed /\ ret.error.kind \in {"HunksNotSupported", "PlanFileMissing"})
            => /\ ret.error.id = req.plan[i].id
               /\ \A n \in 1..Len(log) : log[n].unit < i
               /\ Len(commits) < i)

\* C5 witness: after the first unit's commit, the second unit names "b"
\* and then "a", the diff's file set has "a" only, and the unit was refused
\* for "b" with nothing issued for it.
C5_Witness ==
    /\ Failed
    /\ i = 2
    /\ ret.error.kind = "PlanFileMissing"
    /\ req.plan[2].files = <<"b", "a">>
    /\ ret.error.detail = <<"b">>
    /\ diff_files(req.diff) = {"a"}
    /\ Len(commits) = 1
    /\ log # <<>>
    /\ \A n \in 1..Len(log) : log[n].unit = 1

\* Every git command apply_plan issued succeeded.
AllIssuedOk == \A n \in 1..Len(log) : log[n].ok

Staged(ix, h) == {f \in Files : ix[f] # h[f]}

\* C6: with cleanup_on_error, a file outside the first unit's declared files
\* staged before the call, no other writer and git itself working: when the
\* unit reaches its staged-set check the call returns StagedFilesMismatch for
\* that unit, makes no commit, and afterwards none of the unit's declared
\* files is staged while the file staged beforehand still is.
C6_CleanupLeavesForeignStaged ==
    (/\ Failed
     /\ req.cleanup_on_error
     /\ NoOtherWriteInCall
     /\ AllIssuedOk
     /\ i = 1
     /\ ret.error.kind \notin {"DiffHashMismatch", "HunksNotSupported",
                               "PlanFileMissing", "CommandFailed"}
     /\ Staged(atCall.index, atCall.head) \ Range(req.plan[1].files) # {})
        => /\ ret.error.kind = "StagedFilesMismatch"
           /\ ret.error.id = req.plan[1].id
           /\ commits = <<>>
           /\ head = atCall.head
           /\ \A f \in Range(req.plan[1].files) : index[f] = head[f]
           /\ \A f \in Files \ Range(req.plan[1].files) : index[f] = atCall.index[f]

\* C6 witness: "b" was staged before the call, the plan's unit declares the
\* modified "a"; the call failed, "a" is unstaged again and "b" still staged.
C6_Witness ==
    /\ Failed
    /\ req.cleanup_on_error
    /\ NoOtherWriteInCall
    /\ AllIssuedOk
    /\ i = 1
    /\ req.plan[1].files = <<"a">>
    /\ atCall.index["b"] # atCall.head["b"]
    /\ wt["a"] # head["a"]
    /\ ret.error.kind = "StagedFilesMismatch"
    /\ Len(log) = 3 /\ log[3].cleanup
    /\ index["a"] = head["a"]
    /\ index["b"] # head["b"]

\* C7 as claimed: with cleanup_on_error, when the call fails for a unit in
\* one of steps 2-6 (the cleanup reset, where one is issued, succeeding and
\* no other process writing), none of the unit's declared files is staged
\* when it returns.
C7_CleanupAfterAnyUnitFailure ==
    (/\ Failed
     /\ req.cleanup_on_error
     /\ NoOtherWriteInCall
     /\ i >= 1
     /\ ret.error.kind # "DiffHashMismatch"
     /\ ~(ret.error.kind = "CommandFailed" /\ ret.error.detail = <<"diff">>)
     /\ (log # <<>> /\ log[Len(log)].cleanup) => log[Len(log)].ok)
        => \A f \in Range(req.plan[i].files) : index[f] = head[f]

\* C8: apply_plan returns either Ok with one result per plan unit, in plan
\* order, each with the unit's id, status Applied, a commit hash and no
\* error, or Err with one error and no results, whatever was applied before
\* the failing unit.
C8_AllResultsOrOneError ==
    Returned =>
        \/ /\ ret.tag = "Ok"
           /\ ret.error.kind = "none"
           /\ Len(ret.results) = Len(req.plan)
           /\ \A k \in 1..Len(req.plan) :
                /\ ret.results[k].id = req.plan[k].id
                /\ ret.results[k].status = "Applied"
                /\ ret.results[k].commit_hash # None
                /\ ret.results[k].error = None
        \/ /\ ret.tag = "Err"
           /\ ret.error.kind # "none"
           /\ ret.results = <<>>

\* C8 witness: the first unit was applied and recorded, the second failed,
\* and the call returned the error alone.
C8_Witness ==
    /\ Failed
    /\ Len(results) = 1
    /\ results[1].status = "Applied"
    /\ Len(commits) = 1
    /\ i = 2
    /\ ret.results = <<>>

IsPrefix(s, t) == Len(s) <= Len(t) /\ \A k \in 1..Len(s) : s[k] = t[k]

\* C9: no step removes or rewrites a commit, so the number of commits
\* reachable from HEAD never decreases; and when the call fails at unit k
\* the commits recorded for units 1..k-1 are in the history, in order.
C9_CommitsAreKept ==
    /\ [][IsPrefix(commits, commits')]_vars
    /\ [](Failed =>
            /\ Len(commits) >= Len(results)
            /\ \A k \in 1..Len(results) :
                /\ results[k].commit_hash = Some(k)
                /\ commits[k].unit = req.plan[k].id
                /\ commits[k].pos = k)

\* C9 witness: a call with cleanup_on_error failed at its second unit after
\* staging it, and the first unit's commit is still there.
C9_Witness ==
    /\ Failed
    /\ req.cleanup_on_error
    /\ i = 2
    /\ log[Len(log)].cleanup
    /\ Len(commits) = 1
    /\ commits[1].unit = req.plan[1].id

\* The commands issued for unit k, cleanup resets left out.
Issued(k, cmd) ==
    SelectSeq(log, LAMBDA c : c.unit = k /\ c.cmd = cmd /\ ~c.cleanup)

\* C10: units are processed in plan order, one at a time and at most once:
\* the log is ordered by unit; per unit at most one reset, one add and one
\* commit, in this order; a command for unit k+1 is issued only after unit
\* k's commit succeeded and its result was recorded; after a failed command
\* nothing follows but the cleanup reset of the same unit's files.
C10_SequentialNoRetry ==
    /\ \A m, n \in 1..Len(log) : m < n =>
        /\ log[m].unit <= log[n].unit
        /\ (log[m].unit = log[n].unit /\ ~log[n].cleanup) =>
                /\ log[m].cmd # log[n].cmd
                /\ log[m].cmd = "commit" => FALSE
                /\ log[m].cmd = "add" => log[n].cmd = "commit"
        /\ ~log[m].ok =>
                /\ n = m + 1
                /\ n = Len(log)
                /\ log[n].cleanup
                /\ log[n].cmd = "reset"
                /\ log[n].unit = log[m].unit
                /\ log[n].paths = req.plan[log[m].unit].files
        /\ log[m].cleanup => FALSE
    /\ \A n \in 1..Len(log) :
        /\ log[n].unit \in 1..Len(req.plan)
        /\ log[n].unit <= i
        /\ \A k \in 1..(log[n].unit - 1) :
            /\ Len(results) >= k
            /\ results[k].id = req.plan[k].id
            /\ \E m \in 1..(n - 1) : log[m].unit = k /\ log[m].cmd = "commit" /\ log[m].ok
    /\ \A k \in 1..Len(req.plan) :
        /\ Len(Issued(k, "reset")) <= 1
        /\ Len(Issued(k, "add")) <= 1
        /\ Len(Issued(k, "commit")) <= 1

\* C10 witness: two units were committed one after the other, and a third
\* command sequence never started: the log is reset, add, commit twice.
C10_Witness ==
    /\ Returned
    /\ ret.tag = "Ok"
    /\ Len(req.plan) = 2
    /\ Len(log) = 6
    /\ [n \in 1..6 |-> log[n].unit] = <<1, 1, 1, 2, 2, 2>>
    /\ [n \in 1..6 |-> log[n].cmd] = <<"reset", "add", "commit", "reset", "add", "commit">>

\* The word for a commit type as the message format names it.
TypeWord ==
    [Feat |-> "feat", Fix |-> "fix", Refactor |-> "refactor", Style |-> "style",
     Docs |-> "docs", Test |-> "test", Chore |-> "chore", Build |-> "build",
     Perf |-> "perf", Ci |-> "ci"]

\* C11: the commit made for a unit has the subject "<type>[<scope>]: <summary>"
\* when the unit has a scope and "<type>: <summary>" when it has none, <type>
\* being the lowercase word of the unit's type, and the paragraphs after the
\* subject are the unit's body lines in their order.
C11_CommitMessage ==
    \A k \in 1..Len(commits) :
        LET unit == req.plan[commits[k].pos]
            msg == commits[k].message
            word == <<TypeWord[unit.type_]>>
        IN /\ Len(msg) = 1 + Len(unit.body)
           /\ unit.scope # None =>
                msg[1] = word \o <<"[">> \o unit.scope[1] \o <<"]", ":", " ">> \o unit.summary
           /\ unit.scope = None => msg[1] = word \o <<":", " ">> \o unit.summary
           /\ \A j \in 1..Len(unit.body) : msg[j + 1] = unit.body[j]

\* C11 witness: two commits were made, one for a unit with a scope and a
\* two-line body whose lines differ, one for a unit with neither scope nor
\* body.
C11_Witness ==
    /\ Len(commits) = 2
    /\ \E k \in 1..2 :
        /\ req.plan[k].scope # None
        /\ Len(req.plan[k].body) = 2
        /\ req.plan[k].body[1] # req.plan[k].body[2]
        /\ commits[k].message[1][2] = "["
    /\ \E k \in 1..2 :
        /\ req.plan[k].scope = None
        /\ req.plan[k].body = <<>>
        /\ Len(commits[k].message) = 1

\* The diff the repository has now, in the request's mode.
CurrentDiff == compute_diff(head, index, wt, req.diff_mode, req.include_untracked)

C13_CallerDiffMismatchRejected ==
    (/\ Returned
     /\ req.source = "Diff"
     /\ expected_hash(req) = diff_hash(req.diff)
     /\ writes = 0
     /\ diff_hash(req.diff) #
            diff_hash(compute_diff(snap.head, snap.index, snap.wt,
                                   req.diff_mode, req.include_untracked)))
        => /\ ret.tag = "Err"
           /\ ret.error.kind = "DiffHashMismatch"
           /\ commits = <<>>

\* ------------------------------------------ the apply command and handler
\* main.rs: handle_apply (CLI) and apply_handler (HTTP). A request carries
\* the fields of the ApplyRequest it may build, and: the surface it came in
\* by, the diff text the caller supplied (None: take it from the
\* repository), execute and dry_run as given, and what the LLM backend will
\* answer. main.rs leaves `source` out of the ApplyRequest it builds; the
\* handler's own source tag is passed here.
LlmKinds ==
    {"runtime", "timeout", "not_json", "schema_violation", "not_deserializable",
     "plan"}

LlmUnits ==
    { CommitUnit(GoodId, "Docs", GoodScope, GoodSummary, GoodBody, <<"a">>, <<>>),
      CommitUnit(<<"c", "9">>, "Fix", None, GoodSummary, GoodBody, <<"b">>, <<>>),
      CommitUnit(GoodId, "Feat", GoodScope, Repeat("s", SummaryMin - 1), GoodBody,
                 <<"a">>, <<>>),
      CommitUnit(<<"c", "9">>, "Fix", Some(<<"-", "c">>), GoodSummary, <<>>,
                 <<"b">>, <<>>) }

LlmAnswers ==
    { [kind |-> k, units |-> <<>>] : k \in LlmKinds \ {"plan"} }
        \cup { [kind |-> "plan", units |-> units] :
                    units \in UNION { [1..n -> LlmUnits] : n \in 0..MaxUnits } }

SuppliedDiffs ==
    { None, Some(<<>>), Some(FileDiff("a", 1, 2)),
      Some(FileDiff("a", 1, 2) \o FileDiff("b", 0, 1)) }

\* execute and dry_run as the surface can carry them: flags on the command
\* line (apply has no --dry-run), optional fields in the HTTP body.
ExecuteChoices ==
    { [surface |-> "cli", execute |-> Some(x), dry_run |-> None] : x \in BOOLEAN }
        \cup { [surface |-> "http", execute |-> x, dry_run |-> d] :
                    x \in {None, Some(FALSE), Some(TRUE)},
                    d \in {None, Some(FALSE), Some(TRUE)} }

ConfigChoices ==
    { [diff_mode |-> "All", include_untracked |-> TRUE],
      [diff_mode |-> "Worktree", include_untracked |-> FALSE] }

HandlerRequest(choice, supplied, config, cleanup, llm) ==
    [plan |-> <<>>, diff |-> <<>>, source |-> "Diff",
     diff_mode |-> config.diff_mode, include_untracked |-> config.include_untracked,
     expected_diff_hash |-> None, cleanup_on_error |-> cleanup,
     surface |-> choice.surface, execute |-> choice.execute,
     dry_run |-> choice.dry_run, supplied |-> supplied, llm |-> llm,
     warnings |-> <<>>]

unwrap_or(opt, default) == IF opt = None THEN default ELSE opt[1]

\* Mutant: dry_run is not looked at.
should_execute_ignoring_dry_run(r) == unwrap_or(r.execute, FALSE)

\* handle_apply line 140 (args.execute); apply_handler lines 356-358.
should_execute(r) ==
    IF r.surface = "cli" THEN r.execute[1]
    ELSE unwrap_or(r.execute, FALSE) /\ ~unwrap_or(r.dry_run, FALSE)

ErrorResponse(code, message) ==
    [tag |-> "Response", status |-> "error", code |-> code, message |-> message,
     plan |-> <<>>, results |-> <<>>, error |-> NoError]

\* Mutant: the mode and the flag are reported whatever the source is.
build_input_meta_always_mode(source, config, diff) ==
    [source |-> source,
     diff_mode |-> Some(config.diff_mode),
     include_untracked |-> Some(config.include_untracked),
     diff_hash |-> Some(diff_hash(diff))]

\* build_input_meta (output_diff_mode maps each mode to the same name).
build_input_meta(source, config, diff) ==
    [source |-> source,
     diff_mode |-> IF source = "Repo" THEN Some(config.diff_mode) ELSE None,
     include_untracked |-> IF source = "Repo" THEN Some(config.include_untracked)
                           ELSE None,
     diff_hash |-> Some(diff_hash(diff))]

\* build_apply_response, with the handler's source, config and diff.
CommitApplyResponse(plan, rs) ==
    [tag |-> "Response", status |-> "ok", code |-> "none", message |-> "",
     plan |-> plan, results |-> rs, error |-> NoError,
     input |-> build_input_meta(req.source, req, req.diff)]

Respond(response) ==
    /\ ret' = response
    /\ pc' = "responded"

\* planned_results.
planned_results(plan) ==
    [k \in 1..Len(plan) |-> ApplyResult(plan[k].id, "Planned", None)]

InitRequest ==
    /\ \E r \in InitRepos :
        /\ r.index = r.head
        /\ r.wt["a"] = 1 => r.wt["b"] = 0
        /\ head = r.head /\ index = r.index /\ wt = r.wt
        /\ snap = r
    /\ commits = <<>>
    /\ writes = 0
    /\ \E choice \in ExecuteChoices, supplied \in SuppliedDiffs,
          config \in ConfigChoices, cleanup \in BOOLEAN, llm \in LlmAnswers :
            req = HandlerRequest(choice, supplied, config, cleanup, llm)
    /\ atCall = [head |-> head, index |-> index, writes |-> 0]
    /\ pc = "resolve"
    /\ i = 0
    /\ results = <<>>
    /\ error = NoError
    /\ ret = NotReturned
    /\ log = <<>>

\* handle_apply lines 107-122, resolve_request_diff: the caller's text, or
\* the repository's diff; an empty diff is refused.
ResolveDiff ==
    /\ pc = "resolve"
    /\ IF req.supplied # None
       THEN IF req.supplied[1] = <<>>
            THEN Respond(ErrorResponse("input_invalid", "diff input is empty"))
                 /\ UNCHANGED req
            ELSE /\ req' = [req EXCEPT !.diff = req.supplied[1], !.source = "Diff"]
                 /\ pc' = "llm"
                 /\ UNCHANGED ret
       ELSE \E gitOk \in BOOLEAN :
            LET diff == compute_diff(head, index, wt, req.diff_mode, req.include_untracked)
            IN IF ~gitOk
               THEN Respond(ErrorResponse("git_error", "failed to compute git diff"))
                    /\ UNCHANGED req
               ELSE IF diff = <<>>
               THEN Respond(ErrorResponse("input_invalid", "diff input is empty"))
                    /\ UNCHANGED req
               ELSE /\ req' = [req EXCEPT !.diff = diff, !.source = "Repo"]
                    /\ pc' = "llm"
                    /\ UNCHANGED ret
    /\ UNCHANGED <<repoVars, snap, writes, atCall, i, results, error, log>>

\* request_commit_plan: the backend's answer, then parse_commit_plan
\* (llm.rs 253-264): JSON, schema, deserialization, non-empty plan.
RequestPlan ==
    /\ pc = "llm"
    /\ LET llm == req.llm IN
       IF llm.kind = "runtime"
       THEN Respond(ErrorResponse("llm_runtime_error", "llm request failed"))
            /\ UNCHANGED req
       ELSE IF llm.kind = "timeout"
       THEN Respond(ErrorResponse("timeout", "llm request timed out"))
            /\ UNCHANGED req
       ELSE IF llm.kind # "plan" \/ llm.units = <<>>
       THEN Respond(ErrorResponse("llm_parse_error", "llm response parse failed"))
            /\ UNCHANGED req
       ELSE /\ req' = [req EXCEPT !.plan = llm.units]
            /\ pc' = "semantic"
            /\ UNCHANGED ret
    /\ UNCHANGED <<repoVars, snap, writes, atCall, i, results, error, log>>

\* Mutant: the plan goes on whatever the validator says.
SemanticValidate_ignored ==
    /\ pc = "semantic"
    /\ pc' = "decide"
    /\ UNCHANGED <<repoVars, snap, writes, req, atCall, i, results, error, ret, log>>

\* apply_semantic_validation / semantic_warnings_http.
SemanticValidate ==
    /\ pc = "semantic"
    /\ LET report == validate_commit_units(req.plan, "Warn") IN
       IF report.tag = "Err"
       THEN Respond(ErrorResponse("llm_parse_error", "semantic validation failed"))
            /\ UNCHANGED req
       ELSE /\ req' = [req EXCEPT !.warnings = report.warnings]
            /\ pc' = "decide"
            /\ UNCHANGED ret
    /\ UNCHANGED <<repoVars, snap, writes, atCall, i, results, error, log>>

\* handle_apply lines 140-158, apply_handler lines 361-384: apply_plan is
\* called, or the results are planned_results.
Decide ==
    /\ pc = "decide"
    /\ IF should_execute(req)
       THEN /\ req' = [req EXCEPT !.expected_diff_hash = Some(diff_hash(req.diff))]
            /\ atCall' = [head |-> head, index |-> index, writes |-> writes]
            /\ pc' = "entry"
            /\ UNCHANGED ret
       ELSE /\ Respond(CommitApplyResponse(req.plan, planned_results(req.plan)))
            /\ UNCHANGED <<req, atCall>>
    /\ UNCHANGED <<repoVars, snap, writes, i, results, error, log>>

\* apply_plan has returned: its results go into the response, its error
\* becomes a git_error response.
RespondApplied ==
    /\ pc = "done"
    /\ IF ret.tag = "Ok"
       THEN Respond(CommitApplyResponse(req.plan, ret.results))
       ELSE Respond([ErrorResponse("git_error", "apply execution failed")
                        EXCEPT !.error = ret.error])
    /\ UNCHANGED <<repoVars, snap, writes, req, atCall, i, results, error, log>>

NextRequest ==
    \/ ResolveDiff
    \/ RequestPlan
    \/ SemanticValidate
    \/ Decide
    \/ VerifyFirst
    \/ Finish
    \/ VerifyUnit
    \/ CheckUnit
    \/ StageReset
    \/ StageAdd
    \/ VerifyStaged
    \/ Commit
    \/ RevParse
    \/ Cleanup
    \/ RespondApplied

SpecRequest == InitRequest /\ [][NextRequest]_vars

\* ---------------------------------------------- the validator's rules
\* The rules as the claims word them, written without the operators above.
Validated == pc = "validated"

Blank(str) == \A k \in 1..Len(str) : str[k] \in {" ", "\t"}

KebabLetters ==
    {"a", "b", "c", "d", "e", "f", "g", "h", "i", "j", "k", "l", "m", "n", "o",
     "p", "q", "r", "s", "t", "u", "v", "w", "x", "y", "z",
     "0", "1", "2", "3", "4", "5", "6", "7", "8", "9", "-"}

KebabCase(str) ==
    /\ \A k \in 1..Len(str) : str[k] \in KebabLetters
    /\ str # <<>> => (str[1] # "-" /\ str[Len(str)] # "-")

Violation(kind, unit, n) == [kind |-> kind, id |-> unit.id, n |-> n]

IdViolations(unit) ==
    IF Blank(unit.id) THEN <<Violation("EmptyId", unit, 0)>> ELSE <<>>

SummaryViolations(unit) ==
    IF Len(unit.summary) \in SummaryMin..SummaryMax THEN <<>>
    ELSE <<Violation("SummaryLength", unit, Len(unit.summary))>>

BodyCountViolations(unit) ==
    IF Len(unit.body) = 0 \/ Len(unit.body) > BodyMax
    THEN <<Violation("BodyLineCount", unit, Len(unit.body))>> ELSE <<>>

RECURSIVE BodyLineViolations(_, _)
BodyLineViolations(unit, upTo) ==
    IF upTo = 0 THEN <<>>
    ELSE BodyLineViolations(unit, upTo - 1) \o
            (IF Blank(unit.body[upTo])
             THEN <<Violation("BodyLineEmpty", unit, upTo - 1)>> ELSE <<>>)

ScopeViolations(unit, policy) ==
    IF unit.scope = None
    THEN IF policy = "Require" THEN <<Violation("ScopeMissing", unit, 0)>> ELSE <<>>
    ELSE IF Blank(unit.scope[1]) THEN <<Violation("ScopeEmpty", unit, 0)>>
    ELSE IF ~KebabCase(unit.scope[1]) THEN <<Violation("ScopeInvalid", unit, 0)>>
    ELSE <<>>

UnitViolations(unit, policy) ==
    IdViolations(unit) \o SummaryViolations(unit) \o BodyCountViolations(unit)
        \o BodyLineViolations(unit, Len(unit.body)) \o ScopeViolations(unit, policy)

UnitWarnings(unit, policy) ==
    IF unit.scope = None /\ policy = "Warn"
    THEN <<Violation("ScopeMissing", unit, 0)>> ELSE <<>>

OfKinds(errors, kinds) ==
    LET Test(e) == e.kind \in kinds IN SelectSeq(errors, Test)

\* C16: validate_commit_units goes through every rule of every unit: it
\* returns Err exactly when some unit breaks a rule, and then with all the
\* violations of all units, by unit and within a unit in the order id,
\* summary, body count, body lines, scope; otherwise it returns Ok with the
\* warnings of all units. Nothing of a plan is accepted when it returns Err.
C16_AllViolationsOrWarnings ==
    Validated =>
        LET all == Flatten([k \in 1..Len(req.units) |->
                        UnitViolations(req.units[k], req.scope_policy)])
            warned == Flatten([k \in 1..Len(req.units) |->
                        UnitWarnings(req.units[k], req.scope_policy)])
        IN /\ ret.tag \in {"Ok", "Err"}
           /\ ret.tag = "Err" <=> all # <<>>
           /\ ret.tag = "Err" => (ret.errors = all /\ ret.warnings = <<>>)
           /\ ret.tag = "Ok" => (ret.warnings = warned /\ ret.errors = <<>>)

\* C16 witness: a plan whose first unit is valid and whose second unit breaks
\* the id, summary, body and scope rules at once was refused with all six
\* violations of the second unit.
C16_Witness ==
    /\ Validated
    /\ Len(req.units) = 2
    /\ UnitViolations(req.units[1], req.scope_policy) = <<>>
    /\ ret.tag = "Err"
    /\ [k \in 1..Len(ret.errors) |-> ret.errors[k].kind] =
            <<"EmptyId", "SummaryLength", "BodyLineCount", "BodyLineEmpty",
              "BodyLineEmpty", "ScopeInvalid">>

PerUnit(Part(_)) == Flatten([k \in 1..Len(req.units) |-> Part(req.units[k])])

\* C17: a unit gets a SummaryLength error, carrying the actual length, exactly
\* when its summary has fewer than 50 or more than 72 Unicode scalar values;
\* 50 and 72 are accepted, 49 and 73 are not.
C17_SummaryLengthBounds ==
    Validated =>
        LET Expected(unit) ==
                IF Len(unit.summary) < 50 \/ Len(unit.summary) > 72
                THEN <<Violation("SummaryLength", unit, Len(unit.summary))>>
                ELSE <<>>
        IN OfKinds(ret.errors, {"SummaryLength"}) = PerUnit(Expected)

\* C17 witness: a summary of 73 scalars was refused with SummaryLength(73).
C17_Witness ==
    /\ Validated
    /\ Len(req.units) = 1
    /\ Len(req.units[1].summary) = 73
    /\ ret.tag = "Err"
    /\ ret.errors = <<Violation("SummaryLength", req.units[1], 73)>>

\* C18: a unit gets BodyLineCount(count) exactly when its body has 0 or more
\* than 3 entries, and, whatever the count, one BodyLineEmpty(index) for each
\* entry that is empty or only whitespace, the index counted from zero.
C18_BodyCountAndBlankLines ==
    Validated =>
        LET Count(unit) ==
                IF Len(unit.body) = 0 \/ Len(unit.body) > 3
                THEN <<Violation("BodyLineCount", unit, Len(unit.body))>>
                ELSE <<>>
            Lines(unit) == BodyLineViolations(unit, Len(unit.body))
        IN /\ OfKinds(ret.errors, {"BodyLineCount"}) = PerUnit(Count)
           /\ OfKinds(ret.errors, {"BodyLineEmpty"}) = PerUnit(Lines)

\* C18 witness: a body of four entries, the second and fourth blank, was
\* refused with BodyLineCount(4), BodyLineEmpty(1) and BodyLineEmpty(3).
C18_Witness ==
    /\ Validated
    /\ Len(req.units) = 1
    /\ Len(req.units[1].body) = 4
    /\ ret.tag = "Err"
    /\ ret.errors = <<Violation("BodyLineCount", req.units[1], 4),
                      Violation("BodyLineEmpty", req.units[1], 1),
                      Violation("BodyLineEmpty", req.units[1], 3)>>

\* C19: a unit with a scope gets exactly ScopeEmpty when the scope is only
\* whitespace, ScopeInvalid exactly when the scope is not blank and not
\* kebab-case (a character other than a-z, 0-9, '-', or a '-' at either
\* end), and for a kebab-case scope neither a scope error nor a warning,
\* under every policy.
C19_ScopeFormat ==
    Validated =>
        LET Expected(unit) ==
                IF unit.scope = None THEN <<>>
                ELSE IF Blank(unit.scope[1]) THEN <<Violation("ScopeEmpty", unit, 0)>>
                ELSE IF ~KebabCase(unit.scope[1]) THEN <<Violation("ScopeInvalid", unit, 0)>>
                ELSE <<>>
        IN /\ OfKinds(ret.errors, {"ScopeEmpty", "ScopeInvalid"}) = PerUnit(Expected)
           /\ (\A k \in 1..Len(req.units) : req.units[k].scope # None)
                => /\ ret.warnings = <<>>
                   /\ OfKinds(ret.errors, {"ScopeMissing"}) = <<>>

\* C19 witness: the scope "a-" (lowercase letters and hyphens only, ending
\* in a hyphen) was refused with ScopeInvalid alone.
C19_Witness ==
    /\ Validated
    /\ Len(req.units) = 1
    /\ req.units[1].scope = Some(<<"a", "-">>)
    /\ ret.tag = "Err"
    /\ ret.errors = <<Violation("ScopeInvalid", req.units[1], 0)>>

\* C20: for a unit without a scope the policy alone decides: Require gives a
\* ScopeMissing error (the plan is refused), Warn gives one ScopeMissing
\* warning for the unit and no error (a plan with nothing else wrong is
\* accepted), Allow gives neither.
C20_MissingScopeByPolicy ==
    Validated =>
        LET Errors(unit) ==
                IF unit.scope = None /\ req.scope_policy = "Require"
                THEN <<Violation("ScopeMissing", unit, 0)>> ELSE <<>>
            Warnings(unit) ==
                IF unit.scope = None /\ req.scope_policy = "Warn"
                THEN <<Violation("ScopeMissing", unit, 0)>> ELSE <<>>
            Other(unit) ==
                IdViolations(unit) \o SummaryViolations(unit) \o BodyCountViolations(unit)
                    \o BodyLineViolations(unit, Len(unit.body))
        IN /\ OfKinds(ret.errors, {"ScopeMissing"}) = PerUnit(Errors)
           /\ PerUnit(Errors) # <<>> => ret.tag = "Err"
           /\ ret.tag = "Ok" => ret.warnings = PerUnit(Warnings)
           /\ (/\ req.scope_policy # "Require"
               /\ \A k \in 1..Len(req.units) :
                    req.units[k].scope = None /\ Other(req.units[k]) = <<>>)
                => ret.tag = "Ok"

\* C20 witness: under Warn a plan of two units without scope and nothing
\* else wrong was accepted with one warning for each.
C20_Witness ==
    /\ Validated
    /\ req.scope_policy = "Warn"
    /\ Len(req.units) = 2
    /\ \A k \in 1..2 : req.units[k].scope = None
    /\ ret.tag = "Ok"
    /\ Len(ret.warnings) = 2

Responded == pc = "responded"

\* The request got as far as asking the LLM, and the LLM answered with text.
LlmAnswered ==
    /\ req.diff # <<>>
    /\ req.llm.kind \notin {"runtime", "timeout"}

\* The answer does not pass parsing and schema validation, or it does and
\* some unit breaks a rule of the semantic validator under the Warn policy.
AnswerRefused ==
    \/ req.llm.kind # "plan"
    \/ req.llm.units = <<>>
    \/ \E k \in 1..Len(req.llm.units) : UnitViolations(req.llm.units[k], "Warn") # <<>>

RepositoryUntouched ==
    /\ log = <<>>
    /\ commits = <<>>
    /\ head = snap.head
    /\ index = snap.index
    /\ wt = snap.wt

\* C14: apply_plan is entered only with a plan that passed parsing, schema
\* validation and semantic validation; when the LLM's answer fails either
\* stage the request ends with the error code llm_parse_error and no git
\* reset, add or commit has been run.
C14_ApplyOnlyAfterValidation ==
    /\ [][(pc # "entry" /\ pc' = "entry") =>
            /\ ~AnswerRefused
            /\ req'.plan = req.llm.units]_vars
    /\ [](Responded /\ LlmAnswered /\ AnswerRefused =>
            /\ ret.status = "error"
            /\ ret.code = "llm_parse_error"
            /\ RepositoryUntouched)

\* Execution was asked for, the first unit is valid and the second is not:
\* the request ended with llm_parse_error.
C14_Witness ==
    /\ Responded
    /\ should_execute(req)
    /\ Len(req.plan) = 2
    /\ UnitViolations(req.plan[1], "Warn") = <<>>
    /\ UnitViolations(req.plan[2], "Warn") # <<>>
    /\ ret.code = "llm_parse_error"
    /\ ret.message = "semantic validation failed"
    /\ log = <<>>

\* Execution is requested: --execute on the command line; execute true and
\* dry_run not true in the HTTP body.
ExecutionRequested ==
    \/ req.surface = "cli" /\ req.execute = Some(TRUE)
    \/ req.surface = "http" /\ req.execute = Some(TRUE) /\ req.dry_run # Some(TRUE)

\* C15: when execution is not requested apply_plan is never entered, the
\* repository stays as it was, and a successful response carries one result
\* per unit, in plan order, with status Planned and no commit hash.
C15_NoExecutionPlansOnly ==
    /\ [][(pc # "entry" /\ pc' = "entry") => ExecutionRequested]_vars
    /\ [](~ExecutionRequested =>
            /\ pc \in {"resolve", "llm", "semantic", "decide", "responded"}
            /\ RepositoryUntouched
            /\ (Responded /\ ret.status = "ok" =>
                    /\ ret.plan = req.plan
                    /\ Len(ret.results) = Len(req.plan)
                    /\ \A k \in 1..Len(req.plan) :
                        /\ ret.results[k].id = req.plan[k].id
                        /\ ret.results[k].status = "Planned"
                        /\ ret.results[k].commit_hash = None))

\* An HTTP request with execute true and dry_run true, a valid plan of two
\* units: the response lists both as planned.
C15_Witness ==
    /\ Responded
    /\ req.surface = "http"
    /\ req.execute = Some(TRUE)
    /\ req.dry_run = Some(TRUE)
    /\ ret.status = "ok"
    /\ Len(req.plan) = 2
    /\ Len(ret.results) = 2
    /\ ret.results[2].status = "Planned"
    /\ log = <<>>

\* --------------------------------------------------- compute_diff alone
\* compute_diff and diff_hash called on a repository in any state, and again
\* after another process has written to it (verify_diff_hash recomputes the
\* diff and its token at every check).
DiffRepos ==
    { [head |-> h, index |-> ix, wt |-> w] :
        h \in [Files -> {0, 1}], ix \in [Files -> Content], w \in [Files -> Content] }

\* git may print an empty output as whitespace only.
Padded(text, pad) == IF text = <<>> /\ pad THEN <<SpaceLine>> ELSE text

PrintedOutputs(h, ix, w, pads) ==
    LET out == GitDiffOutputs(h, ix, w) IN
    [out EXCEPT !.worktree = Padded(@, "worktree" \in pads),
                !.staged = Padded(@, "staged" \in pads)]

DiffResult(text, out) ==
    [tag |-> "Ok", text |-> text, out |-> out, results |-> <<>>, error |-> NoError]

InitDiff ==
    /\ \E r \in DiffRepos :
        /\ head = r.head /\ index = r.index /\ wt = r.wt
        /\ snap = r
    /\ commits = <<>>
    /\ writes = 0
    /\ \E mode \in Modes, untracked \in BOOLEAN :
        req = ApplyRequest(<<>>, <<>>, "Repo", mode, untracked, None, FALSE)
    /\ atCall = [head |-> head, index |-> index, writes |-> 0]
    /\ pc = "diff"
    /\ i = 0
    /\ results = <<>>
    /\ error = NoError
    /\ ret = NotReturned
    /\ log = <<>>

\* compute_diff: Ok(parts.join("\n")), or the error of the first git command
\* that fails.
ComputeDiff ==
    /\ pc = "diff"
    /\ \E gitOk \in BOOLEAN, pads \in SUBSET {"worktree", "staged"} :
        IF gitOk
        THEN LET out == PrintedOutputs(head, index, wt, pads) IN
             /\ ret' = DiffResult(compute_diff_parts(out, req.diff_mode,
                                                     req.include_untracked), out)
             /\ pc' = "hash"
        ELSE /\ pads = {}
             /\ Return(Err(GitError("CommandFailed", 0, <<"diff">>)))
    /\ UNCHANGED <<repoVars, snap, writes, req, atCall, i, results, error, log>>

\* hash::diff_hash on the text just computed (verify_diff_hash line 161).
HashDiff ==
    /\ pc = "hash"
    /\ results' = Append(results, [text |-> ret.text, token |-> diff_hash(ret.text)])
    /\ pc' = "hashed"
    /\ UNCHANGED <<repoVars, snap, writes, req, atCall, i, error, ret, log>>

\* The next check recomputes the diff of the repository as it is.
Again ==
    /\ pc = "hashed"
    /\ Len(results) <= MaxWrites
    /\ pc' = "diff"
    /\ UNCHANGED <<repoVars, snap, writes, req, atCall, i, results, error, ret, log>>

\* Another process writes to the repository between two checks.
Drift ==
    /\ pc = "hashed"
    /\ writes < MaxWrites
    /\ \/ \E f \in Files, v \in Content :
            /\ v # wt[f]
            /\ wt' = [wt EXCEPT ![f] = v]
            /\ UNCHANGED index
       \/ \E f \in Files :
            /\ wt[f] # index[f]
            /\ index' = [index EXCEPT ![f] = wt[f]]
            /\ UNCHANGED wt
    /\ writes' = writes + 1
    /\ UNCHANGED <<head, commits, snap, req, atCall, pc, i, results, error, ret, log>>

NextDiff ==
    \/ ComputeDiff
    \/ HashDiff
    \/ Again
    \/ Drift

SpecDiff == InitDiff /\ [][NextDiff]_vars

\* ------------------------------------------------ the diff engine's rules
\* The paths named by the "diff --git" headers of a text.
Mentions(text) ==
    { text[k].toks[2].path : k \in { j \in 1..Len(text) : text[j].kind = "diff --git" } }

ChangedInWorktree == { f \in Files : index[f] # 0 /\ wt[f] # index[f] }
ChangedInIndex == { f \in Files : index[f] # head[f] }
UntrackedFiles == { f \in Files : index[f] = 0 /\ wt[f] # 0 }

\* compute_diff has just returned a text for the repository as it is.
DiffComputed == pc = "hash" /\ ret.tag = "Ok"

\* C21: the text of compute_diff mentions, in mode Worktree, exactly the
\* tracked files whose working tree differs from the index (no file that is
\* only staged); in mode Staged, exactly the files whose index differs from
\* HEAD (no file that is only modified in the working tree); in mode All,
\* both sets; and the untracked files, by the path of their no-index diff,
\* if and only if include_untracked is set.
C21_DiffMentionsPerMode ==
    DiffComputed =>
        LET mentioned == Mentions(ret.text)
            byMode == CASE req.diff_mode = "Worktree" -> ChangedInWorktree
                        [] req.diff_mode = "Staged" -> ChangedInIndex
                        [] req.diff_mode = "All" -> ChangedInWorktree \cup ChangedInIndex
        IN /\ mentioned \cap Files = byMode
           /\ mentioned \ Files =
                IF req.include_untracked
                THEN { AbsPath(f) : f \in UntrackedFiles } ELSE {}
           /\ \A f \in UntrackedFiles :
                AbsPath(f) \in mentioned <=> req.include_untracked
           /\ req.diff_mode = "Worktree" =>
                \A f \in Files : wt[f] = index[f] => f \notin mentioned
           /\ req.diff_mode = "Staged" =>
                \A f \in Files : index[f] = head[f] => f \notin mentioned

\* One file changed in the working tree only, the other staged only: the
\* Worktree diff mentions the first and not the second.
C21_Witness ==
    /\ DiffComputed
    /\ req.diff_mode = "Worktree"
    /\ index["a"] = head["a"] /\ wt["a"] # index["a"] /\ index["a"] # 0
    /\ index["b"] # head["b"] /\ wt["b"] = index["b"]
    /\ Mentions(ret.text) = {"a"}

NonBlankText(text) == \E k \in 1..Len(text) : text[k].kind \notin {"blank", "space"}

\* The parts compute_diff asks git for, in the order it asks: what git
\* printed for the working tree and for the index, and the no-index diff of
\* each untracked path in path order.
PartsInOrder ==
    (IF req.diff_mode \in {"Worktree", "All"} THEN <<ret.out.worktree>> ELSE <<>>)
        \o (IF req.diff_mode \in {"Staged", "All"} THEN <<ret.out.staged>> ELSE <<>>)
        \o (IF req.include_untracked
            THEN LET paths == SelectSeq(FileOrder, LAMBDA f : f \in UntrackedFiles)
                 IN [k \in 1..Len(paths) |-> FileDiff(AbsPath(paths[k]), 0, wt[paths[k]])]
            ELSE <<>>)

\* Texts put one after the other with one newline between two of them.
RECURSIVE JoinedByNewline(_)
JoinedByNewline(texts) ==
    IF Len(texts) = 0 THEN <<>>
    ELSE IF Len(texts) = 1 THEN texts[1]
    ELSE JoinedByNewline(SubSeq(texts, 1, Len(texts) - 1))
            \o <<BlankLine>> \o texts[Len(texts)]

\* C22: the text of compute_diff is the non-empty parts, in the order
\* worktree diff, staged diff, untracked diffs in scan order, joined by a
\* single newline; an empty or whitespace-only part adds nothing, and the
\* text is empty when every part is.
C22_DiffTextIsJoinedParts ==
    DiffComputed =>
        /\ ret.text = JoinedByNewline(SelectSeq(PartsInOrder, NonBlankText))
        /\ (\A k \in 1..Len(PartsInOrder) : ~NonBlankText(PartsInOrder[k]))
                => ret.text = <<>>

\* Mode All with untracked files: a worktree diff, a staged output of
\* whitespace only, and the diff of an untracked file.
C22_Witness ==
    /\ DiffComputed
    /\ req.diff_mode = "All"
    /\ req.include_untracked
    /\ NonBlankText(ret.out.worktree)
    /\ ret.out.staged = <<SpaceLine>>
    /\ Len(ret.out.untracked) = 1
    /\ ret.text = ret.out.worktree \o <<BlankLine>> \o ret.out.untracked[1]

ExitCodes == {Some(0), Some(1), Some(2), Some(128), None}

ProcessOutcomes ==
    { [launched |-> l, code |-> c, utf8 |-> u, stderr |-> e] :
        l \in BOOLEAN, c \in ExitCodes, u \in BOOLEAN,
        e \in {<<>>, <<"fatal">>} }

\* The call sites of git.rs: the arguments, the extra paths, and whether the
\* call allows exit status 1.
GitCall(name, args, extra_paths, allow_exit_1) ==
    [name |-> name, args |-> args, extra_paths |-> extra_paths,
     allow_exit_1 |-> allow_exit_1]

GitCalls ==
    { GitCall("diff", <<"diff">>, <<>>, TRUE),
      GitCall("diff --staged", <<"diff", "--staged">>, <<>>, TRUE),
      GitCall("diff --no-index",
              <<"diff", "--no-index", "--", "/dev/null">>, <<"/repo/b">>, TRUE),
      GitCall("diff --staged --name-only",
              <<"diff", "--staged", "--name-only", "-z">>, <<>>, TRUE),
      GitCall("status", <<"status", "--porcelain=v1", "-z">>, <<>>, FALSE),
      GitCall("reset", <<"reset", "-q", "--">>, <<"/repo/a", "/repo/b">>, FALSE),
      GitCall("add", <<"add", "--">>, <<"/repo/a", "/repo/b">>, FALSE),
      GitCall("rev-parse", <<"rev-parse", "HEAD">>, <<>>, FALSE) }

\* Mutant: exit status 1 is accepted from every command.
run_git_with_extra_paths_lenient(args, extra_paths, allow_exit_1, out) ==
    LET cmd_string ==
            <<"git">> \o args
                \o (IF extra_paths = <<>> THEN <<>> ELSE <<"--">> \o extra_paths)
        status_ok == out.code = Some(0) \/ out.code = Some(1)
    IN IF ~out.launched THEN Err(GitError("CommandIo", 0, <<cmd_string>>))
       ELSE IF ~status_ok
       THEN Err(GitError("CommandFailed", 0, <<cmd_string, out.stderr>>))
       ELSE IF ~out.utf8 THEN Err(GitError("OutputNotUtf8", 0, <<>>))
       ELSE Ok(<<>>)

\* run_git_with_extra_paths (lines 292-335).
run_git_with_extra_paths(args, extra_paths, allow_exit_1, out) ==
    LET cmd_string ==
            <<"git">> \o args
                \o (IF extra_paths = <<>> THEN <<>> ELSE <<"--">> \o extra_paths)
        status_ok == out.code = Some(0) \/ (allow_exit_1 /\ out.code = Some(1))
    IN IF ~out.launched THEN Err(GitError("CommandIo", 0, <<cmd_string>>))
       ELSE IF ~status_ok
       THEN Err(GitError("CommandFailed", 0, <<cmd_string, out.stderr>>))
       ELSE IF ~out.utf8 THEN Err(GitError("OutputNotUtf8", 0, <<>>))
       ELSE Ok(<<>>)

run_git(args, out) == run_git_with_extra_paths(args, <<>>, FALSE, out)

run_git_diff(args, extra_paths, out) ==
    run_git_with_extra_paths(args, extra_paths, TRUE, out)

InitRunGit ==
    /\ head = [f \in Files |-> IF f = "a" THEN 1 ELSE 0]
    /\ index = head
    /\ wt = head
    /\ snap = [head |-> head, index |-> index, wt |-> wt]
    /\ commits = <<>>
    /\ writes = 0
    /\ \E call \in GitCalls, out \in ProcessOutcomes :
        req = [call |-> call, out |-> out]
    /\ atCall = [head |-> head, index |-> index, writes |-> 0]
    /\ pc = "run"
    /\ i = 0
    /\ results = <<>>
    /\ error = NoError
    /\ ret = NotReturned
    /\ log = <<>>

\* The call as its call site makes it: through run_git, through run_git_diff,
\* or run_git_with_extra_paths itself.
RunGit ==
    /\ pc = "run"
    /\ LET call == req.call IN
       ret' = IF call.name \in {"status", "rev-parse"}
              THEN run_git(call.args, req.out)
              ELSE IF call.name \in {"diff", "diff --staged", "diff --no-index"}
              THEN run_git_diff(call.args, call.extra_paths, req.out)
              ELSE run_git_with_extra_paths(call.args, call.extra_paths,
                                            call.allow_exit_1, req.out)
    /\ pc' = "ran"
    /\ UNCHANGED <<repoVars, snap, writes, req, atCall, i, results, error, log>>

NextRunGit == RunGit

SpecRunGit == InitRunGit /\ [][NextRunGit]_vars

DiffTypeCalls ==
    {"diff", "diff --staged", "diff --no-index", "diff --staged --name-only"}

\* The command line as the error carries it.
CommandLine(call) ==
    <<"git">> \o call.args
        \o (IF call.extra_paths = <<>> THEN <<>> ELSE <<"--">> \o call.extra_paths)

\* C24: a diff-type git command succeeds on exit status 0 or 1, reset, add,
\* status and rev-parse on exit status 0 only; any other status is
\* CommandFailed with the command line and stderr, a successful command with
\* non-UTF-8 output is OutputNotUtf8, and a command that cannot be launched
\* is CommandIo; no kind stands for another.
C24_GitExitStatus ==
    pc = "ran" =>
        LET out == req.out
            accepted == \/ out.code = Some(0)
                        \/ req.call.name \in DiffTypeCalls /\ out.code = Some(1)
        IN /\ ~out.launched <=> (ret.tag = "Err" /\ ret.error.kind = "CommandIo")
           /\ (out.launched /\ ~accepted)
                <=> (ret.tag = "Err" /\ ret.error.kind = "CommandFailed")
           /\ (out.launched /\ accepted /\ ~out.utf8)
                <=> (ret.tag = "Err" /\ ret.error.kind = "OutputNotUtf8")
           /\ (out.launched /\ accepted /\ out.utf8) <=> ret.tag = "Ok"
           /\ ret.tag = "Err" /\ ret.error.kind = "CommandFailed" =>
                ret.error.detail = <<CommandLine(req.call), out.stderr>>
           /\ ret.tag = "Err" /\ ret.error.kind = "CommandIo" =>
                ret.error.detail = <<CommandLine(req.call)>>

\* The staged name listing ends with exit status 1 and is taken as a success.
C24_Witness ==
    /\ pc = "ran"
    /\ req.call.name = "diff --staged --name-only"
    /\ req.out.launched
    /\ req.out.code = Some(1)
    /\ req.out.utf8
    /\ ret.tag = "Ok"

\* ------------------------------------------------------ schema validators
\* schema.rs: validate_schema called by several threads. Here `snap` holds
\* the three statics (once_cell::sync::Lazy cells), `req` and `pc` each
\* thread's current call and position, `log` the runs of compile_schema,
\* `results` what the calls returned and `writes` the number of calls made.
\* A Lazy cell is forced by the first thread that finds it uninitialised;
\* threads that find it being initialised wait until the value is there.
MaxCalls == 3       \* calls to validate_schema in a run

Threads == {"t1", "t2"}
SchemaKinds == {"CommitPlan", "CommitApply", "ErrorResponse"}
CompileOutcomes == {"Ok", "SchemaParse", "SchemaCompile"}

InitSchema ==
    /\ head = [f \in Files |-> IF f = "a" THEN 1 ELSE 0]
    /\ index = head
    /\ wt = head
    /\ commits = <<>>
    /\ snap = [k \in SchemaKinds |-> [state |-> "uninit", value |-> None]]
    /\ writes = 0
    /\ req = [t \in Threads |-> [kind |-> "CommitPlan", instance_ok |-> TRUE,
                                 first |-> FALSE]]
    /\ atCall = [head |-> head, index |-> index, writes |-> 0]
    /\ pc = [t \in Threads |-> "idle"]
    /\ i = 0
    /\ results = <<>>
    /\ error = NoError
    /\ ret = NotReturned
    /\ log = <<>>

\* A thread calls validate_schema(kind, instance).
CallValidate ==
    /\ writes < MaxCalls
    /\ \E t \in Threads, kind \in SchemaKinds, ok \in BOOLEAN :
        /\ pc[t] = "idle"
        /\ req' = [req EXCEPT ![t] = [kind |-> kind, instance_ok |-> ok,
                                      first |-> snap[kind].state # "done"]]
        /\ pc' = [pc EXCEPT ![t] = "force"]
    /\ writes' = writes + 1
    /\ UNCHANGED <<repoVars, snap, atCall, i, results, error, ret, log>>

\* Mutant: a thread that finds no value yet compiles the schema itself.
LazyForce_unsynchronised ==
    /\ \E t \in Threads :
        /\ pc[t] = "force"
        /\ IF snap[req[t].kind].state = "done"
           THEN pc' = [pc EXCEPT ![t] = "validate"]
           ELSE pc' = [pc EXCEPT ![t] = "compiling"]
    /\ UNCHANGED <<repoVars, snap, writes, req, atCall, i, results, error, ret, log>>

\* schema_for: the static of the kind is dereferenced. The value is there,
\* or this thread becomes the one that initialises the cell; while another
\* thread is initialising it, this one waits.
LazyForce ==
    /\ \E t \in Threads :
        LET cell == snap[req[t].kind] IN
        /\ pc[t] = "force"
        /\ cell.state # "running"
        /\ IF cell.state = "done"
           THEN /\ pc' = [pc EXCEPT ![t] = "validate"]
                /\ UNCHANGED snap
           ELSE /\ snap' = [snap EXCEPT ![req[t].kind].state = "running"]
                /\ pc' = [pc EXCEPT ![t] = "compiling"]
    /\ UNCHANGED <<repoVars, writes, req, atCall, i, results, error, ret, log>>

\* compile_schema, run by the initialising thread: the schema document
\* compiles, or does not parse, or does not compile; the result is stored.
CompileSchema ==
    /\ \E t \in Threads, outcome \in CompileOutcomes :
        /\ pc[t] = "compiling"
        /\ log' = Append(log, [kind |-> req[t].kind, thread |-> t])
        /\ snap' = [snap EXCEPT ![req[t].kind] =
                        [state |-> "done",
                         value |-> Some([outcome |-> outcome, id |-> Len(log) + 1])]]
        /\ pc' = [pc EXCEPT ![t] = "validate"]
    /\ UNCHANGED <<repoVars, writes, req, atCall, i, results, error, ret>>

\* validate_schema, after schema_for: the cached compile error is returned,
\* or the instance is checked with the cached validator.
ValidateInstance ==
    /\ \E t \in Threads :
        LET value == snap[req[t].kind].value[1]
            outcome == IF value.outcome # "Ok" THEN value.outcome
                       ELSE IF req[t].instance_ok THEN "Ok" ELSE "SchemaViolation"
        IN /\ pc[t] = "validate"
           /\ results' = Append(results,
                  [thread |-> t, kind |-> req[t].kind, first |-> req[t].first,
                   validator |-> value.id, compiled |-> value.outcome,
                   outcome |-> outcome])
           /\ pc' = [pc EXCEPT ![t] = "idle"]
    /\ UNCHANGED <<repoVars, snap, writes, req, atCall, i, error, ret, log>>

NextSchema ==
    \/ CallValidate
    \/ LazyForce
    \/ CompileSchema
    \/ ValidateInstance

SpecSchema == InitSchema /\ [][NextSchema]_vars

CompilesOf(kind) == { k \in 1..Len(log) : log[k].kind = kind }

\* C25: each schema document is compiled at most once, also when threads make
\* their first calls for a kind at the same time, and all calls for a kind get
\* the same compiled validator or the same compile error.
C25_SchemaCompiledOnce ==
    /\ \A kind \in SchemaKinds : Cardinality(CompilesOf(kind)) <= 1
    /\ \A j, k \in 1..Len(results) :
        results[j].kind = results[k].kind =>
            /\ results[j].validator = results[k].validator
            /\ results[j].compiled = results[k].compiled
    /\ \A k \in 1..Len(results) :
        /\ results[k].validator \in CompilesOf(results[k].kind)
        /\ results[k].compiled # "Ok" => results[k].outcome = results[k].compiled

\* Two threads called for the same kind before its schema was compiled; both
\* returned, and the schema was compiled once.
C25_Witness ==
    /\ Len(results) = 2
    /\ results[1].thread # results[2].thread
    /\ results[1].kind = results[2].kind
    /\ results[1].first /\ results[2].first
    /\ results[1].validator = results[2].validator
    /\ Cardinality(CompilesOf(results[1].kind)) = 1

\* ---------------------------------------------- the hash guard and the plan
\* C26 as claimed: with the diff taken from the repository and the expected
\* token that of the snapshot, apply_plan returns DiffHashMismatch only when
\* another process has written to the repository since the snapshot; its own
\* commit for an earlier unit does not stop a later unit.
C26_MismatchOnlyAfterForeignWrite ==
    (/\ Returned
     /\ req.source = "Repo"
     /\ expected_hash(req) = diff_hash(req.diff)
     /\ ret.tag = "Err"
     /\ ret.error.kind = "DiffHashMismatch")
        => writes > 0

\* ------------------------------------------------ apply_plan on its own
\* apply_plan called on a repository nobody else writes to. Before the call
\* a file may be unstaged, fully staged, or partly staged (the index holds
\* neither HEAD's content nor the working tree's).
AloneRepos ==
    { [head |-> [f \in Files |-> IF f = "a" THEN 1 ELSE 0],
       index |-> [f \in Files |-> IF f = "a" THEN ia ELSE ib],
       wt |-> [f \in Files |-> IF f = "a" THEN wa ELSE wb]] :
        ia \in {1, MaxContent}, wa \in {1, MaxContent},
        ib \in {0, 1}, wb \in {0, 1, MaxContent} }

\* How the caller got the diff: from the repository in one of the modes, or
\* as a text of its own.
AloneDiffs ==
    { [source |-> "Repo", diff_mode |-> m, include_untracked |-> u, text |-> <<>>] :
        m \in Modes, u \in {FALSE} }
        \cup { [source |-> "Repo", diff_mode |-> "All", include_untracked |-> TRUE,
                text |-> <<>>] }
        \cup { [source |-> "Diff", diff_mode |-> "All", include_untracked |-> TRUE,
                text |-> t] : t \in CallerDiffs }

InitAlone ==
    /\ \E r \in AloneRepos :
        /\ head = r.head /\ index = r.index /\ wt = r.wt
        /\ snap = r
    /\ commits = <<>>
    /\ writes = 0
    /\ \E plan \in Plans, d \in AloneDiffs, cleanup \in BOOLEAN :
        req = ApplyRequest(plan,
                           IF d.source = "Repo"
                           THEN compute_diff(head, index, wt, d.diff_mode,
                                             d.include_untracked)
                           ELSE d.text,
                           d.source, d.diff_mode, d.include_untracked, None, cleanup)
    /\ atCall = [head |-> head, index |-> index, writes |-> 0]
    /\ pc = "entry"
    /\ i = 0
    /\ results = <<>>
    /\ error = NoError
    /\ ret = NotReturned
    /\ log = <<>>

NextAlone ==
    \/ VerifyFirst
    \/ Finish
    \/ VerifyUnit
    \/ CheckUnit
    \/ StageReset
    \/ StageAdd
    \/ VerifyStaged
    \/ Commit
    \/ RevParse
    \/ Cleanup

SpecAlone == InitAlone /\ [][NextAlone]_vars

\* apply_plan runs to its end: no step of it waits for anything but git.
SpecAloneFair == SpecAlone /\ WF_vars(NextAlone)

\* ---------------------------------------------- apply_plan on its own: rules
GitCommandFailed == ret.tag = "Err" /\ ret.error.kind = "CommandFailed"

AppliedAll ==
    /\ ret.tag = "Ok"
    /\ Len(ret.results) = Len(req.plan)
    /\ \A k \in 1..Len(req.plan) :
        /\ ret.results[k].id = req.plan[k].id
        /\ ret.results[k].status = "Applied"
        /\ ret.results[k].commit_hash # None
    /\ Len(commits) = Len(req.plan)

\* For a repository with HEAD h and working tree w: a plan without hunks
\* whose files are all in the diff and whose every unit brings a file that
\* differs from HEAD and that no earlier unit declares.
PlanBringsChanges(h, w) ==
    \A k \in 1..Len(req.plan) :
        /\ req.plan[k].hunks = <<>>
        /\ Range(req.plan[k].files) \subseteq diff_files(req.diff)
        /\ \E f \in Range(req.plan[k].files) :
            /\ w[f] # h[f]
            /\ \A j \in 1..(k - 1) : f \notin Range(req.plan[j].files)

\* The case of C27: a caller-written diff, a clean index, and such a plan.
CompletionCase(h, ix, w) ==
    /\ req.source = "Diff"
    /\ ix = h
    /\ PlanBringsChanges(h, w)

Captured(f) ==
    CASE req.diff_mode = "Worktree" -> <<snap.index[f], snap.wt[f]>>
      [] req.diff_mode = "Staged" -> <<snap.head[f], snap.index[f]>>
      [] req.diff_mode = "All" -> <<snap.head[f], snap.wt[f]>>

\* C28 as claimed: with the diff taken from the repository and no other
\* writer, a commit changes each of its files exactly as the snapshot
\* captured: from the content the snapshot starts from to the content it
\* ends with, so that working-tree edits are not committed under mode Staged
\* nor staged edits under mode Worktree.
C28_CommitsOnlyCapturedChanges ==
    [][(pc = "commit" /\ pc' = "rev_parse" /\ req.source = "Repo") =>
            \A f \in Files :
                head'[f] # head[f] => <<head[f], head'[f]>> = Captured(f)]_vars

\* stage_files on an index: reset of the paths, then add of the same paths.
StagedFrom(ix, paths) == GitAdd(GitReset(ix, head, paths), wt, paths)

\* The indexes that differ from the present one on the given paths only.
IndexesBefore(paths) ==
    { ix \in [Files -> Content] : \A f \in Files \ Range(paths) : ix[f] = index[f] }

\* C29: after a unit has been staged the index holds the working-tree
\* content of each declared file, whatever the index held for them before
\* (nothing, part of the change, all of it), and staging once more changes
\* nothing.
C29_StagingNormalizes ==
    (pc = "verify_staged" /\ req.plan[i].files # <<>>) =>
        LET paths == req.plan[i].files IN
        /\ \A f \in Range(paths) : index[f] = wt[f]
        /\ \A ix \in IndexesBefore(paths) : StagedFrom(ix, paths) = index
        /\ StagedFrom(index, paths) = index

\* A unit whose file was partly staged before the call has been staged.
C29_Witness ==
    /\ pc = "verify_staged"
    /\ i = 1
    /\ req.plan[1].files = <<"b">>
    /\ snap.index["b"] # snap.head["b"]
    /\ snap.index["b"] # snap.wt["b"]
    /\ index["b"] = wt["b"]
    /\ index["b"] # snap.index["b"]

\* The files staged when apply_plan was called.
StagedAtCall == { f \in Files : atCall.index[f] # atCall.head[f] }

DeclaredFiles == UNION { Range(req.plan[k].files) : k \in 1..Len(req.plan) }

\* C30 as claimed: when only files declared by the plan were staged before
\* the call, the plan is applied as from a clean index: a plan that a clean
\* index lets through (C27) is applied in full, no unit being refused because
\* a file of a later unit is already staged.
C30_PreStagedFilesDoNotMatter ==
    (/\ Returned
     /\ req.source = "Diff"
     /\ StagedAtCall # {}
     /\ StagedAtCall \subseteq DeclaredFiles
     /\ PlanBringsChanges(atCall.head, snap.wt)
     /\ ~GitCommandFailed)
        => AppliedAll

\* ------------------------------------------- errors and commits: rules
\* The call returned an error while the unit at position k was processed.
FailedAtUnit(k) ==
    /\ Returned
    /\ ret.tag = "Err"
    /\ i = k
    /\ k \in 1..Len(req.plan)

CommitsOf(k) == {j \in 1..Len(commits) : commits[j].pos = k}

\* C31 as claimed: when apply_plan returns an error for the unit at position
\* k, the repository holds no commit made for that unit, also when the step
\* that failed is the resolution of HEAD after the commit command.
C31_ErrorMeansNoCommit ==
    \A k \in 1..MaxUnits : FailedAtUnit(k) => CommitsOf(k) = {}

CapturedContentChanged(f) ==
    IF req.diff_mode = "Staged" THEN index[f] # snap.index[f]
    ELSE wt[f] # snap.wt[f]

Execs == {1, 2}

Other(e) == 3 - e

InFlight(e) == pc[e] \notin {"idle", "done"}

\* The file a is modified and b is new; nothing is staged.
TwoRepos ==
    { [head |-> [f \in Files |-> IF f = "a" THEN 1 ELSE 0],
       index |-> [f \in Files |-> IF f = "a" THEN 1 ELSE 0],
       wt |-> [f \in Files |-> IF f = "a" THEN MaxContent ELSE 1]] }

\* Plans as the handler passes them on: validated units without hunks, each
\* declaring one file that no other unit of the plan declares.
TwoPlans ==
    { [k \in 1..Len(fs) |->
            CommitUnit(k, PlanType(k), PlanScope(k), PlanSummary(k), PlanBody(k),
                       <<fs[k]>>, <<>>)] :
        fs \in { s \in UNION { [1..n -> Files] : n \in 1..MaxUnits } :
                    \A j, k \in DOMAIN s : j # k => s[j] # s[k] } }

\* The request of apply_handler: the diff field of the payload when present
\* (source Diff), else the diff computed from the repository (source Repo).
TwoRequests(r) ==
    { ApplyRequest(plan,
                   IF source = "Repo" THEN compute_diff(r.head, r.index, r.wt, "All", TRUE)
                   ELSE FileDiff("a", 1, MaxContent) \o FileDiff("b", 0, 1),
                   source, "All", TRUE, None, cleanup) :
        plan \in TwoPlans, source \in Sources, cleanup \in BOOLEAN }

InitTwo ==
    /\ \E r \in TwoRepos :
        /\ head = r.head /\ index = r.index /\ wt = r.wt
        /\ snap = r
        /\ req \in [Execs -> TwoRequests(r)]
        /\ atCall = [e \in Execs |-> [head |-> r.head, index |-> r.index, writes |-> 0]]
    /\ commits = <<>>
    /\ writes = [e \in Execs |-> 0]
    /\ pc = [e \in Execs |-> "idle"]
    /\ i = [e \in Execs |-> 0]
    /\ results = [e \in Execs |-> <<>>]
    /\ error = [e \in Execs |-> NoError]
    /\ ret = [e \in Execs |-> NotReturned]
    /\ log = <<>>

\* Execution e issues a mutating git command.
Mutates(e, cmd) ==
    /\ log' = Append(log, [exec |-> e] @@ cmd)
    /\ writes' = IF InFlight(Other(e)) THEN [writes EXCEPT ![Other(e)] = 1] ELSE writes

ReturnOf(e, value) ==
    /\ ret' = [ret EXCEPT ![e] = value]
    /\ pc' = [pc EXCEPT ![e] = "done"]

\* The error branch of the staging chain (lines 124-129).
FailOf(e, err) ==
    IF req[e].cleanup_on_error
    THEN /\ error' = [error EXCEPT ![e] = err]
         /\ pc' = [pc EXCEPT ![e] = "cleanup"]
         /\ UNCHANGED ret
    ELSE /\ ReturnOf(e, Err(err))
         /\ UNCHANGED error

\* apply_handler reaches git::apply_plan (main.rs:358-367).
StartOf(e) ==
    /\ pc[e] = "idle"
    /\ pc' = [pc EXCEPT ![e] = "entry"]
    /\ atCall' = [atCall EXCEPT ![e] = [head |-> head, index |-> index, writes |-> 0]]
    /\ UNCHANGED <<repoVars, snap, writes, req, i, results, error, ret, log>>

VerifyFirstOf(e) ==
    /\ pc[e] = "entry"
    /\ \E gitOk \in (IF req[e].source = "Repo" THEN BOOLEAN ELSE {TRUE}) :
        LET err == verify_diff_hash(head, index, wt, req[e].source, req[e].diff_mode,
                                    req[e].include_untracked, expected_hash(req[e]), gitOk)
        IN IF err.kind # "none"
           THEN ReturnOf(e, Err(err)) /\ UNCHANGED i
           ELSE /\ pc' = [pc EXCEPT ![e] = "loop"]
                /\ i' = [i EXCEPT ![e] = 1]
                /\ UNCHANGED ret
    /\ UNCHANGED <<repoVars, snap, writes, req, atCall, results, error, log>>

FinishOf(e) ==
    /\ pc[e] = "loop"
    /\ i[e] > Len(req[e].plan)
    /\ ReturnOf(e, Ok(results[e]))
    /\ UNCHANGED <<repoVars, snap, writes, req, atCall, i, results, error, log>>

VerifyUnitOf(e) ==
    /\ pc[e] = "loop"
    /\ i[e] <= Len(req[e].plan)
    /\ \E gitOk \in (IF req[e].source = "Repo" THEN BOOLEAN ELSE {TRUE}) :
        LET err == verify_diff_hash(head, index, wt, req[e].source, req[e].diff_mode,
                                    req[e].include_untracked, expected_hash(req[e]), gitOk)
        IN IF err.kind # "none"
           THEN ReturnOf(e, Err(err))
           ELSE pc' = [pc EXCEPT ![e] = "check"] /\ UNCHANGED ret
    /\ UNCHANGED <<repoVars, snap, writes, req, atCall, i, results, error, log>>

CheckUnitOf(e) ==
    /\ pc[e] = "check"
    /\ LET unit == req[e].plan[i[e]]
           missing == FirstMissing(unit.files, diff_files(req[e].diff))
       IN IF unit.hunks # <<>>
          THEN ReturnOf(e, Err(GitError("HunksNotSupported", unit.id, <<>>)))
          ELSE IF missing # None
          THEN ReturnOf(e, Err(GitError("PlanFileMissing", unit.id, missing)))
          ELSE pc' = [pc EXCEPT ![e] = "reset"] /\ UNCHANGED ret
    /\ UNCHANGED <<repoVars, snap, writes, req, atCall, i, results, error, log>>

StageResetOf(e) ==
    /\ pc[e] = "reset"
    /\ LET unit == req[e].plan[i[e]] IN
       IF unit.files = <<>>
       THEN /\ pc' = [pc EXCEPT ![e] = "verify_staged"]
            /\ UNCHANGED <<index, error, ret, log, writes>>
       ELSE \E gitOk \in BOOLEAN :
            /\ Mutates(e, GitCmd("reset", i[e], unit.files, gitOk, FALSE))
            /\ IF gitOk
               THEN /\ index' = GitReset(index, head, unit.files)
                    /\ pc' = [pc EXCEPT ![e] = "add"]
                    /\ UNCHANGED <<error, ret>>
               ELSE /\ FailOf(e, GitError("CommandFailed", unit.id, <<"reset">>))
                    /\ UNCHANGED index
    /\ UNCHANGED <<head, wt, commits, snap, req, atCall, i, results>>

StageAddOf(e) ==
    /\ pc[e] = "add"
    /\ LET unit == req[e].plan[i[e]] IN
       \E gitOk \in BOOLEAN :
       LET ok == gitOk /\ GitAddMatches(index, wt, unit.files) IN
       /\ Mutates(e, GitCmd("add", i[e], unit.files, ok, FALSE))
       /\ IF ok
          THEN /\ index' = GitAdd(index, wt, unit.files)
               /\ pc' = [pc EXCEPT ![e] = "verify_staged"]
               /\ UNCHANGED <<error, ret>>
          ELSE /\ FailOf(e, GitError("CommandFailed", unit.id, <<"add">>))
               /\ UNCHANGED index
    /\ UNCHANGED <<head, wt, commits, snap, req, atCall, i, results>>

VerifyStagedOf(e) ==
    /\ pc[e] = "verify_staged"
    /\ \E gitOk \in BOOLEAN :
        LET err == verify_staged_files(list_staged_files(head, index),
                                       req[e].plan[i[e]], gitOk)
        IN IF err.kind # "none"
           THEN FailOf(e, err)
           ELSE pc' = [pc EXCEPT ![e] = "commit"] /\ UNCHANGED <<error, ret>>
    /\ UNCHANGED <<repoVars, snap, writes, req, atCall, i, results, log>>

CommitOf(e) ==
    /\ pc[e] = "commit"
    /\ LET unit == req[e].plan[i[e]] IN
       \E gitOk \in BOOLEAN :
       LET ok == gitOk /\ GitCommitHasChanges(head, index) IN
       /\ Mutates(e, GitCmd("commit", i[e], <<>>, ok, FALSE))
       /\ IF ok
          THEN /\ head' = index
               /\ commits' = Append(commits,
                      [exec |-> e, unit |-> unit.id, pos |-> i[e],
                       files |-> {f \in Files : index[f] # head[f]},
                       message |-> commit_args(unit)])
               /\ pc' = [pc EXCEPT ![e] = "rev_parse"]
               /\ UNCHANGED <<error, ret>>
          ELSE /\ FailOf(e, GitError("CommandFailed", unit.id, <<"commit">>))
               /\ UNCHANGED <<head, commits>>
    /\ UNCHANGED <<index, wt, snap, req, atCall, i, results>>

RevParseOf(e) ==
    /\ pc[e] = "rev_parse"
    /\ LET unit == req[e].plan[i[e]] IN
       \E gitOk \in BOOLEAN :
       IF gitOk
       THEN /\ results' = [results EXCEPT ![e] =
                   Append(@, ApplyResult(unit.id, "Applied", Some(Len(commits))))]
            /\ i' = [i EXCEPT ![e] = @ + 1]
            /\ pc' = [pc EXCEPT ![e] = "loop"]
            /\ UNCHANGED <<error, ret>>
       ELSE /\ FailOf(e, GitError("CommandFailed", unit.id, <<"rev-parse">>))
            /\ UNCHANGED <<results, i>>
    /\ UNCHANGED <<repoVars, snap, writes, req, atCall, log>>

CleanupOf(e) ==
    /\ pc[e] = "cleanup"
    /\ LET unit == req[e].plan[i[e]] IN
       IF unit.files = <<>>
       THEN UNCHANGED <<index, log, writes>>
       ELSE \E gitOk \in BOOLEAN :
            /\ Mutates(e, GitCmd("reset", i[e], unit.files, gitOk, TRUE))
            /\ index' = IF gitOk THEN GitReset(index, head, unit.files) ELSE index
    /\ ReturnOf(e, Err(error[e]))
    /\ UNCHANGED <<head, wt, commits, snap, req, atCall, i, results, error>>

NextTwo ==
    \E e \in Execs :
        \/ StartOf(e)
        \/ VerifyFirstOf(e)
        \/ FinishOf(e)
        \/ VerifyUnitOf(e)
        \/ CheckUnitOf(e)
        \/ StageResetOf(e)
        \/ StageAddOf(e)
        \/ VerifyStagedOf(e)
        \/ CommitOf(e)
        \/ RevParseOf(e)
        \/ CleanupOf(e)

SpecTwo == InitTwo /\ [][NextTwo]_vars

\* ------------------------------------------ two executions: rules
\* The files the unit of a commit declares.
DeclaredBy(c) == Range(req[c.exec].plan[c.pos].files)

\* C33 as claimed: the staging, staged-set check and commit of a unit are
\* never interrupted by a mutating git command of the other execution, so no
\* commit of one execution contains a file that only the other one staged:
\* every commit holds declared files of its own unit only.
C33_ExecutionsDoNotInterleave ==
    \A k \in 1..Len(commits) : commits[k].files \subseteq DeclaredBy(commits[k])

\* C33 as amended: an execution during whose run the other one issued no
\* mutating git command commits declared files of its own units only,
\* whatever the other execution left staged before.
C33_UndisturbedExecutionCommitsItsOwn ==
    \A k \in 1..Len(commits) :
        writes[commits[k].exec] = 0 => commits[k].files \subseteq DeclaredBy(commits[k])

\* C33 witness: the second execution ran after the first one had returned
\* leaving its file staged, and committed its own file only.
C33_Witness ==
    \E e \in Execs :
        /\ pc[e] = "done" /\ pc[Other(e)] = "done"
        /\ writes[e] = 0 /\ writes[Other(e)] = 0
        /\ ret[Other(e)].tag = "Err"
        /\ ret[e].tag = "Ok"
        /\ \E k \in 1..Len(log) : log[k].exec = Other(e) /\ log[k].cmd = "add" /\ log[k].ok
        /\ \E k \in 1..Len(commits) : commits[k].exec = e

\* ------------------------------------------------ apply_plan's frame
\* The files the unit being processed declares.
FilesOfUnit(k) == IF k \in 1..Len(req.plan) THEN Range(req.plan[k].files) ELSE {}

\* C34: every reset and add carries exactly the declared paths of the unit
\* it is issued for, the cleanup reset those of the failing unit; and no step
\* of apply_plan changes the index entry or the working-tree content of a
\* file that the unit being processed does not declare.
C34_UndeclaredFilesUntouched ==
    [][/\ \A k \in 1..Len(log') :
            /\ log'[k].cmd \in {"reset", "add"} =>
                    log'[k].paths = req.plan[log'[k].unit].files
            /\ log'[k].cleanup =>
                    /\ log'[k].cmd = "reset"
                    /\ k = Len(log')
                    /\ log'[k].unit = i
                    /\ pc' = "done" /\ ret'.tag = "Err"
       /\ \A f \in Files \ FilesOfUnit(i) :
            /\ index'[f] = index[f]
            /\ wt'[f] = wt[f]]_vars

\* C34 witness: a file the unit does not declare was staged before the call;
\* the unit failed, its files were reset by the cleanup, and the other file
\* is staged as before.
C34_Witness ==
    /\ Failed
    /\ i = 1
    /\ req.cleanup_on_error
    /\ log # <<>>
    /\ log[Len(log)].cleanup /\ log[Len(log)].ok
    /\ \E f \in Files \ FilesOfUnit(1) :
        /\ atCall.index[f] # atCall.head[f]
        /\ index[f] = atCall.index[f]
    /\ \E f \in FilesOfUnit(1) : atCall.index[f] # atCall.head[f] /\ index[f] = head[f]

\* The cleanup's reset was issued and failed.
CleanupFailed == log # <<>> /\ log[Len(log)].cleanup /\ ~log[Len(log)].ok

\* The commands issued before the cleanup's reset.
BeforeCleanup == SubSeq(log, 1, Len(log) - 1)

\* C35: when the cleanup's reset fails, apply_plan returns the error that led
\* to the cleanup: the failure of the unit's last command when that command
\* failed, else the verdict of the staged-set check or the failure to read
\* the staged names or HEAD; the failed reset is the last command issued.
C35_CleanupFailureKeepsError ==
    CleanupFailed =>
        /\ Returned
        /\ ret = Err(error)
        /\ ret.error.id = req.plan[i].id
        /\ i = log[Len(log)].unit
        /\ IF BeforeCleanup # <<>> /\ ~BeforeCleanup[Len(BeforeCleanup)].ok
           THEN /\ ret.error.kind = "CommandFailed"
                /\ ret.error.detail = <<BeforeCleanup[Len(BeforeCleanup)].cmd>>
                /\ BeforeCleanup[Len(BeforeCleanup)].unit = i
           ELSE \/ ret.error.kind \in {"StagedDiffEmpty", "StagedFilesMismatch"}
                \/ /\ ret.error.kind = "CommandFailed"
                   /\ ret.error.detail \in {<<"diff --staged --name-only">>, <<"rev-parse">>}
        /\ \A k \in 1..Len(BeforeCleanup) : ~BeforeCleanup[k].cleanup

\* C35 witness: the staged-set check refused the unit, the cleanup's reset
\* failed, and StagedFilesMismatch was returned with the files still staged.
C35_Witness ==
    /\ CleanupFailed
    /\ Returned
    /\ ret.error.kind = "StagedFilesMismatch"
    /\ \E f \in FilesOfUnit(i) : index[f] # head[f]

\* The call returned the error of the staged-set check (its verdict, or the
\* failure to list the staged names) or of the commit command.
FailedAtStagedCheckOrCommit ==
    /\ Failed
    /\ \/ ret.error.kind \in {"StagedDiffEmpty", "StagedFilesMismatch"}
       \/ /\ ret.error.kind = "CommandFailed"
          /\ ret.error.detail \in {<<"diff --staged --name-only">>, <<"commit">>}

\* C36: without cleanup_on_error, when a unit with declared files fails at
\* the staged-set check or at the commit, the last commands issued are the
\* unit's add and, for a commit failure, the failed commit; no reset follows,
\* and every declared file is staged as the add left it, with the content of
\* the working tree.
C36_NoCleanupLeavesStaged ==
    (/\ FailedAtStagedCheckOrCommit
     /\ ~req.cleanup_on_error
     /\ req.plan[i].files # <<>>)
        => /\ Len(log) >= 2
           /\ LET n == IF ret.error.detail = <<"commit">> /\ ret.error.kind = "CommandFailed"
                       THEN Len(log) - 1 ELSE Len(log)
              IN /\ n >= 2
                 /\ log[n].cmd = "add" /\ log[n].ok /\ log[n].unit = i
                 /\ log[n].paths = req.plan[i].files
                 /\ n < Len(log) =>
                        /\ log[Len(log)].cmd = "commit"
                        /\ ~log[Len(log)].ok
                        /\ log[Len(log)].unit = i
           /\ \A k \in 1..Len(log) : ~log[k].cleanup
           /\ \A f \in FilesOfUnit(i) : index[f] = wt[f]

\* C36 witness: the unit was refused with StagedFilesMismatch without
\* cleanup and a declared file is still staged.
C36_Witness ==
    /\ FailedAtStagedCheckOrCommit
    /\ ~req.cleanup_on_error
    /\ ret.error.kind = "StagedFilesMismatch"
    /\ \E f \in FilesOfUnit(i) : index[f] # head[f] /\ index[f] = wt[f]

\* C37: a unit that declares no file never produces a commit: no reset, add
\* or commit is issued for it, apply_plan does not return Ok, and when the
\* unit's staged-set check gives its verdict the error is StagedDiffEmpty if
\* nothing is staged and StagedFilesMismatch (expected empty, actual the
\* staged names) if anything is.
C37_EmptyFileListNeverCommits ==
    /\ \A k \in 1..Len(req.plan) :
        req.plan[k].files = <<>> =>
            /\ \A j \in 1..Len(log) : log[j].unit # k
            /\ CommitsOf(k) = {}
            /\ ret.tag # "Ok"
    /\ (Returned /\ i \in 1..Len(req.plan) /\ req.plan[i].files = <<>>) =>
        /\ ret.tag = "Err"
        /\ ret.error.kind \in {"DiffHashMismatch", "CommandFailed", "HunksNotSupported",
                               "StagedDiffEmpty", "StagedFilesMismatch"}
        /\ ret.error.kind = "CommandFailed" =>
                ret.error.detail \in {<<"diff">>, <<"diff --staged --name-only">>}
        /\ ret.error.kind = "StagedDiffEmpty" => index = head
        /\ ret.error.kind = "StagedFilesMismatch" =>
                /\ index # head
                /\ ret.error.detail = << <<>>, list_staged_files(head, index) >>

\* C37 witness: the first unit declares no file while a file is staged; it
\* is refused with StagedFilesMismatch and no command was issued.
C37_Witness ==
    /\ Returned
    /\ i = 1
    /\ req.plan # <<>>
    /\ req.plan[1].files = <<>>
    /\ ret.error.kind = "StagedFilesMismatch"
    /\ index # head
    /\ log = <<>>

\* ------------------------------------------------- diff_files alone
\* apply_plan given diff texts written by the caller, to see which paths
\* diff_files takes from them. The repository: a was renamed to b.
MaxHeaders == 2     \* lines of a caller-written diff text

HeaderTokens ==
    { Tok("a/", "a"), Tok("b/", "a"), Tok("b/", "b"), Tok("w/", "b"),
      Tok("", "/dev/null"), Tok("b/", "") }

\* The lines of the texts: "diff --git" followed by no, one or two tokens,
\* and lines that do not start with "diff --git ".
TextLines ==
    { HeaderLine(toks) : toks \in UNION { [1..n -> HeaderTokens] : n \in 0..2 } }
        \cup { BodyLine("a", 1, 0), BlankLine }

HeaderTexts == UNION { [1..n -> TextLines] : n \in 0..MaxHeaders }

FilesPlans ==
    { << CommitUnit(1, PlanType(1), PlanScope(1), PlanSummary(1), PlanBody(1), fs, <<>>) >> :
        fs \in { <<"a">>, <<"b">>, <<"b", "a">> } }

InitFiles ==
    /\ head = [f \in Files |-> IF f = "a" THEN 1 ELSE 0]
    /\ index = head
    /\ wt = [f \in Files |-> IF f = "a" THEN 0 ELSE 1]
    /\ snap = [head |-> head, index |-> index, wt |-> wt]
    /\ commits = <<>>
    /\ writes = 0
    /\ \E plan \in FilesPlans, text \in HeaderTexts, cleanup \in BOOLEAN :
        req = ApplyRequest(plan, text, "Diff", "All", TRUE, None, cleanup)
    /\ atCall = [head |-> head, index |-> index, writes |-> 0]
    /\ pc = "entry"
    /\ i = 0
    /\ results = <<>>
    /\ error = NoError
    /\ ret = NotReturned
    /\ log = <<>>

SpecFiles == InitFiles /\ [][NextAlone]_vars

\* ------------------------------------------------- diff_files: rules
\* The path a header line names, in the words of C38: the second token, or
\* the first when there is no second, without a leading "b/", else without a
\* leading "a/".
NamedPath(line) ==
    LET token == IF Len(line.toks) >= 2 THEN line.toks[2] ELSE line.toks[1]
    IN IF token.pfx \in {"a/", "b/"} THEN token.path ELSE token.pfx \o token.path

SnapshotFiles(text) ==
    { NamedPath(text[k]) :
        k \in { j \in 1..Len(text) : text[j].kind = "diff --git" /\ text[j].toks # <<>> } }
        \ {"/dev/null", ""}

\* A header of a rename whose old path no line of the text names as a path.
RenamedAway(text, old) ==
    /\ \E k \in 1..Len(text), new \in Files \ {old} :
            text[k] = HeaderLine(<<Tok("a/", old), Tok("b/", new)>>)
    /\ old \notin SnapshotFiles(text)

\* C38: the file set of the snapshot is made of the path each "diff --git"
\* line names (post-image first, prefix removed, "/dev/null" and the empty
\* path left out) and of nothing else; a unit passes the file check exactly
\* when all its files are in that set, and a unit naming the old path of a
\* rename is refused with PlanFileMissing for that path before any command.
C38_SnapshotFileSet ==
    /\ diff_files(req.diff) = SnapshotFiles(req.diff)
    /\ pc \in {"reset", "add", "verify_staged", "commit", "rev_parse", "cleanup"} =>
            FilesOfUnit(i) \subseteq SnapshotFiles(req.diff)
    /\ (Returned /\ ret.error.kind = "PlanFileMissing") =>
            /\ ret.error.detail # <<>>
            /\ ret.error.detail[1] \in FilesOfUnit(i) \ SnapshotFiles(req.diff)
            /\ log = <<>>
    /\ \A old \in Files :
        (Returned /\ i = 1 /\ old \in FilesOfUnit(1) /\ RenamedAway(req.diff, old)) =>
            /\ ret.tag = "Err"
            /\ ret.error.kind = "PlanFileMissing"
            /\ ret.error.id = req.plan[1].id
            /\ log = <<>> /\ commits = <<>>

\* C38 witness: the text holds the header of the rename of a to b; the unit
\* names the old path only and is refused with PlanFileMissing for it.
C38_Witness ==
    /\ Returned
    /\ i = 1
    /\ req.plan[1].files = <<"a">>
    /\ RenamedAway(req.diff, "a")
    /\ "b" \in diff_files(req.diff)
    /\ ret.error.kind = "PlanFileMissing"
    /\ ret.error.detail = <<"a">>

\* ------------------------------------------------ the input metadata
\* The diff text the handler used: the caller's, or the repository's diff
\* in the configured mode when the caller gave none.
DiffUsed ==
    IF req.supplied # None THEN req.supplied[1]
    ELSE compute_diff(snap.head, snap.index, snap.wt, req.diff_mode, req.include_untracked)

\* C39: the source tag is Diff exactly when the caller supplied the diff text
\* and Repo exactly when it was computed from the repository; the input
\* metadata of the response carries diff_mode and include_untracked (those
\* of the configuration) exactly when the source is Repo, and its diff_hash
\* is the fingerprint of the diff text that was used.
C39_InputMetadata ==
    /\ pc \notin {"resolve", "responded"} =>
        /\ req.source = (IF req.supplied # None THEN "Diff" ELSE "Repo")
        /\ req.diff = DiffUsed
    /\ (Responded /\ ret.status = "ok") =>
        /\ ret.input.source = "Diff" <=> req.supplied # None
        /\ ret.input.source = "Repo" <=> req.supplied = None
        /\ ret.input.diff_mode # None <=> ret.input.source = "Repo"
        /\ ret.input.include_untracked # None <=> ret.input.source = "Repo"
        /\ ret.input.source = "Repo" =>
                /\ ret.input.diff_mode = Some(req.diff_mode)
                /\ ret.input.include_untracked = Some(req.include_untracked)
        /\ ret.input.diff_hash = Some(diff_hash(DiffUsed))

\* C39 witness: no diff was supplied, the plan made from the repository's
\* diff was applied, and the response reports source Repo with the mode.
C39_Witness ==
    /\ Responded
    /\ ret.status = "ok"
    /\ req.supplied = None
    /\ ret.input.source = "Repo"
    /\ ret.input.diff_mode = Some("Worktree")
    /\ ret.input.include_untracked = Some(FALSE)
    /\ Len(commits) = 1

============================================================================
